---------------------------- MODULE Spec2Model ----------------------------
(***************************************************************************)
(* AI-CV-BUILDER: the document-rendering pipeline.                         *)
(*                                                                         *)
(*   POST /api/render-cv -> validateRequest('renderCV')                    *)
(*                       -> PDFController.generatePDF                      *)
(*                       -> LatexService.generatePDF                       *)
(*                            sanitizeTemplateName, populateTemplate,      *)
(*                            fs.writeFile, compileToPDF (pdflatex child   *)
(*                            process + timer), getFileSize,               *)
(*                            cleanupTempFiles                             *)
(*                                                                         *)
(* Text is a sequence of one-character strings, so that the character      *)
(* filters and replacements of the code are computed, not assumed.         *)
(***************************************************************************)
EXTENDS Integers, Sequences, FiniteSets, TLC

VARIABLES
    \* ---- one render request and its job (specification Spec) ----
    entry,          \* "route": POST /api/render-cv; "direct": a handler that
                    \* calls latexService.generatePDF without a schema
    request,        \* the body as the client sent it
    body,           \* req.body: [cvData, template, options], as handed on
    pc,             \* position of the request in the pipeline
    outcome,        \* how the request ended ("none" while it runs)
    templateName,   \* sanitizedTemplateName of generatePDF
    templatePath,   \* the file populateTemplate opens, as path segments
    latexContent,   \* the populated source populateTemplate returns
    replacements,   \* what createReplacements yields for the fields modelled
    tempFiles,      \* extensions of the job's files present in tempDir
    tempPdfSize,    \* size of <filename>.pdf in tempDir (when present)
    outputPdf,      \* size of <filename>.pdf in outputDir, NoFile when absent
    proc,           \* the pdflatex child process
    exitCode,       \* its exit code (NoCode until it has exited)
    timerArmed,     \* the setTimeout of compileToPDF is pending
    timedOut,       \* the local flag of compileToPDF
    killSent,       \* pdflatex.kill('SIGTERM') has been called
    compileResult,  \* the promise returned by compileToPDF
    cleanIdx,       \* next extension cleanupTempFiles unlinks (1..5), 6: done
    details,        \* fields the request validation complained about
    procStage,      \* how many of its output files pdflatex has written
    fileSize,       \* what getFileSize returned to generatePDF
    \* ---- ClaudeService.makeRequest (specification RequestSpec) ----
    caller,         \* the ClaudeService method that called makeRequest
    reqPc,          \* "idle", "calling" (awaiting messages.create),
                    \* "sleeping", "returned" or "thrown"
    attempt,        \* the loop counter of makeRequest
    slept,          \* the delays passed to sleep so far, in ms
    errors,         \* what logger.error recorded, one entry per failure
    reply,          \* the content makeRequest returned
    \* ---- KeywordService and ContentService (KeywordSpec, AnalyzeSpec,
    \*      TailorSpec) ----
    op,             \* the operation that was called: "extractJobKeywords",
                    \* "analyzeCVKeywords" or "generateTailoredContent"
    jobText,        \* the text of the job description
    profile,        \* the user profile
    stage,          \* "idle"; the call that is awaited: "keywords",
                    \* "summary", "bullet", "skills"; "returned" or "thrown"
    keywordAnalysis,\* what extractJobKeywords returned
    jobKeywords,    \* the job keywords given to analyzeCVKeywords
    cvAnalysis,     \* what analyzeCVKeywords returned
    sections,       \* the sections createTailoredSections has filled
    loop,           \* the experiences being enhanced and the bullets of the
                    \* current one
    tailoredCV,     \* what generateTailoredContent returned
    \* ---- ContentService.optimizeContent (OptimizeSpec) ----
    cvContent,      \* the content given to optimizeContent
    targetScore,    \* its target score
    result,         \* what optimizeContent returned
    submitted,      \* the texts given to the generative-text service, one
                    \* entry per call of rewriteBullet or optimizeSummary
    \* ---- the multi-unit operations (BatchSpec) ----
    batchOp,        \* "generateMultiplePDFs" or "batchExtractKeywords"
    units,          \* templates, or the ids of the jobDescriptions
    unitIdx,        \* the unit whose call is awaited
    results,        \* the results list of the handler
    batchErrors,    \* its errors list
    res,            \* the response the handler has sent
    \* ---- rateLimitByUser (RateSpec) ----
    userRateLimit,  \* the Map from client key to admitted timestamps
    admitted,       \* every request passed on to next(): its key and time
    decision,       \* what the middleware did with the last request
    \* ---- AuthService (AuthSpec) ----
    users,          \* this.users, in the order the users were stored
    calls,          \* the calls of register and login under way, by session
    now             \* Date.now(), in the unit of the specification at hand

reqIn    == << entry, request >>
jobVars  == << templateName, templatePath, latexContent, replacements,
              fileSize, cleanIdx >>
fsVars   == << tempFiles, tempPdfSize, outputPdf >>
procVars == << proc, procStage, exitCode, timerArmed, timedOut, killSent,
               compileResult >>

renderVars == << reqIn, body, pc, outcome, details, jobVars, fsVars,
                 procVars >>

apiVars == << caller, reqPc, attempt, slept, errors, reply >>
tailorVars == << op, jobText, profile, stage, keywordAnalysis, jobKeywords,
                 cvAnalysis, sections, loop, tailoredCV >>
aiVars  == << apiVars, tailorVars >>
optVars   == << cvContent, targetScore, result, submitted >>
batchVars == << batchOp, units, unitIdx, results, batchErrors, res >>
rateVars  == << userRateLimit, admitted, decision >>
authVars  == << users, calls >>
webVars   == << optVars, batchVars, rateVars, authVars, now >>

vars == << renderVars, aiVars, webVars >>

\* what the steps of makeRequest leave alone
otherVars == << renderVars, tailorVars, webVars >>

---------------------------------------------------------------------------
(* Text helpers                                                            *)

LowerCaseLetters == { "a", "b", "c", "d", "e", "f", "g", "h", "i", "j", "k",
                      "l", "m", "n", "o", "p", "q", "r", "s", "t", "u", "v",
                      "w", "x", "y", "z" }

UpperCaseLetters == { "A", "B", "C", "D", "E", "F", "G", "H", "I", "J", "K",
                      "L", "M", "N", "O", "P", "Q", "R", "S", "T", "U", "V",
                      "W", "X", "Y", "Z" }

Digits == { "0", "1", "2", "3", "4", "5", "6", "7", "8", "9" }

\* String.prototype.toLowerCase on one character
toLowerCase(c) ==
    CASE c = "A" -> "a" [] c = "B" -> "b" [] c = "C" -> "c" [] c = "D" -> "d"
      [] c = "E" -> "e" [] c = "F" -> "f" [] c = "G" -> "g" [] c = "H" -> "h"
      [] c = "I" -> "i" [] c = "J" -> "j" [] c = "K" -> "k" [] c = "L" -> "l"
      [] c = "M" -> "m" [] c = "N" -> "n" [] c = "O" -> "o" [] c = "P" -> "p"
      [] c = "Q" -> "q" [] c = "R" -> "r" [] c = "S" -> "s" [] c = "T" -> "t"
      [] c = "U" -> "u" [] c = "V" -> "v" [] c = "W" -> "w" [] c = "X" -> "x"
      [] c = "Y" -> "y" [] c = "Z" -> "z" [] OTHER -> c

\* the character class [a-zA-Z0-9_-] of sanitizeTemplateName
TemplateNameChars == LowerCaseLetters \cup UpperCaseLetters \cup Digits
                        \cup { "_", "-" }

\* A JavaScript value that may be undefined, a string or a number.
Undefined == [type |-> "undefined", chars |-> << >>, num |-> 0]
Str(s)    == [type |-> "string", chars |-> s, num |-> 0]
Num(n)    == [type |-> "number", chars |-> << >>, num |-> n]

modern  == << "m", "o", "d", "e", "r", "n" >>
classic == << "c", "l", "a", "s", "s", "i", "c" >>

\* templateName.replace(/[^a-zA-Z0-9_-]/g, '').toLowerCase()
RECURSIVE stripAndLower(_)
stripAndLower(s) ==
    IF s = << >> THEN << >>
    ELSE IF Head(s) \in TemplateNameChars
         THEN << toLowerCase(Head(s)) >> \o stripAndLower(Tail(s))
         ELSE stripAndLower(Tail(s))

\* the same replace without the g flag: only the first offending character
\* is removed
RECURSIVE stripFirst(_)
stripFirst(s) ==
    IF s = << >> THEN << >>
    ELSE IF Head(s) \in TemplateNameChars
         THEN << Head(s) >> \o stripFirst(Tail(s))
         ELSE Tail(s)

sanitizeTemplateName_noGlobalFlag(t) ==
    IF t.type # "string" \/ t.chars = << >> THEN modern
    ELSE IF stripFirst(t.chars) = << >> THEN modern
         ELSE [ i \in 1..Len(stripFirst(t.chars)) |->
                  toLowerCase(stripFirst(t.chars)[i]) ]

\* LatexService.sanitizeTemplateName
sanitizeTemplateName(t) ==
    IF t.type # "string" \/ t.chars = << >> THEN modern
    ELSE IF stripAndLower(t.chars) = << >> THEN modern
         ELSE stripAndLower(t.chars)

---------------------------------------------------------------------------
(* Program constants                                                       *)

\* this.maxFileSize, the default of the constructor
maxFileSize == 10485760

\* the templates shipped in templatesDir: modern-cv.tex and classic-cv.tex
TemplatesOnDisk == { modern, classic }

\* the ids schemas.renderCV accepts for `template`
RenderCVTemplates == { modern, classic }

\* extensions cleanupTempFiles unlinks, in its order
CleanupExtensions == << ".tex", ".aux", ".log", ".out", ".pdf" >>

\* files pdflatex writes into its -output-directory, in the order it opens
\* them: the log, the aux file, hyperref's .out, the PDF at the first page
CompilerOutputs == << ".log", ".aux", ".out", ".pdf" >>

NoFile == -1
NoCode == -2
SignalCode == -1    \* `code` is null when the child was ended by a signal

---------------------------------------------------------------------------
(* Request validation: schemas.renderCV (Joi) and createReplacements       *)

pt(a, b) == << a, b, "p", "t" >>

narrow == << "n", "a", "r", "r", "o", "w" >>
normal == << "n", "o", "r", "m", "a", "l" >>
wide   == << "w", "i", "d", "e" >>
blue   == << "b", "l", "u", "e" >>
black  == << "b", "l", "a", "c", "k" >>
green  == << "g", "r", "e", "e", "n" >>
red    == << "r", "e", "d" >>
purple == << "p", "u", "r", "p", "l", "e" >>
orange == << "o", "r", "a", "n", "g", "e" >>
teal   == << "t", "e", "a", "l" >>
constructorKey == << "c", "o", "n", "s", "t", "r", "u", "c", "t", "o", "r" >>

digitValue(c) ==
    CASE c = "0" -> 0 [] c = "1" -> 1 [] c = "2" -> 2 [] c = "3" -> 3
      [] c = "4" -> 4 [] c = "5" -> 5 [] c = "6" -> 6 [] c = "7" -> 7
      [] c = "8" -> 8 [] c = "9" -> 9 [] OTHER -> 0

IsDigits(s) == s # << >> /\ \A i \in 1..Len(s) : s[i] \in Digits

RECURSIVE parseDigits(_, _)
parseDigits(s, acc) ==
    IF s = << >> THEN acc
    ELSE parseDigits(Tail(s), 10 * acc + digitValue(Head(s)))

\* Joi.number().min(lo).max(hi).default(dflt): a string is converted when it
\* reads as a number and refused otherwise
JoiNumber(v, lo, hi, dflt) ==
    CASE v.type = "undefined" -> [ok |-> TRUE, value |-> Num(dflt)]
      [] v.type = "number" ->
            [ok |-> lo <= v.num /\ v.num <= hi, value |-> v]
      [] OTHER ->
            IF IsDigits(v.chars)
            THEN [ok |-> lo <= parseDigits(v.chars, 0)
                         /\ parseDigits(v.chars, 0) <= hi,
                  value |-> Num(parseDigits(v.chars, 0))]
            ELSE [ok |-> FALSE, value |-> v]

\* Joi.string().valid(...allowed).default(dflt)
JoiValid(v, allowed, dflt) ==
    CASE v.type = "undefined" -> [ok |-> TRUE, value |-> Str(dflt)]
      [] v.type = "string" -> [ok |-> v.chars \in allowed, value |-> v]
      [] OTHER -> [ok |-> FALSE, value |-> v]

NoOptions == [present |-> FALSE, fontSize |-> Undefined,
              margins |-> Undefined, colorScheme |-> Undefined]

Options(f, m, c) == [present |-> TRUE, fontSize |-> f, margins |-> m,
                     colorScheme |-> c]

\* the ranges schemas.renderCV gives options.fontSize
JoiFontSizeMin == 8
JoiFontSizeMax == 14
JoiFontSizeDefault == 11

\* options: Joi.object({fontSize, margins, colorScheme}).default({})
\* an absent `options` becomes the literal {} (no member defaults applied)
JoiOptionsDetails(o) ==
    IF ~o.present THEN {}
    ELSE (IF JoiNumber(o.fontSize, JoiFontSizeMin, JoiFontSizeMax,
                       JoiFontSizeDefault).ok
          THEN {} ELSE { "options.fontSize" })
         \cup (IF JoiValid(o.margins, { narrow, normal, wide }, normal).ok
               THEN {} ELSE { "options.margins" })
         \cup (IF JoiValid(o.colorScheme, { blue, black, green, red }, blue).ok
               THEN {} ELSE { "options.colorScheme" })

JoiOptionsValue(o) ==
    IF ~o.present THEN Options(Undefined, Undefined, Undefined)
    ELSE Options(JoiNumber(o.fontSize, JoiFontSizeMin, JoiFontSizeMax,
                           JoiFontSizeDefault).value,
                 JoiValid(o.margins, { narrow, normal, wide }, normal).value,
                 JoiValid(o.colorScheme, { blue, black, green, red },
                          blue).value)

\* LatexService.validateFontSize(...) || '11pt'
validSizes == { pt("1", "0"), pt("1", "1"), pt("1", "2"), pt("1", "4"),
                pt("1", "6"), pt("1", "8") }

validateFontSize(v) ==
    IF v.type = "string" /\ v.chars \in validSizes THEN v.chars
    ELSE pt("1", "1")

\* LatexService.validateColorScheme(...) || 'blue'
validSchemes == { blue, red, green, purple, orange, teal, black }

validateColorScheme(v) ==
    IF v.type = "string" /\ v.chars \in validSchemes THEN v.chars ELSE blue

\* LatexService.getMarginSize(options.margins || 'normal'):
\* margins[marginType] || margins.normal, a lookup in an object literal, which
\* also finds the members every object inherits (such as `constructor`)
in050 == << "0", ".", "5", "i", "n" >>
in075 == << "0", ".", "7", "5", "i", "n" >>
in100 == << "1", "i", "n" >>
inheritedMember == << "f", "u", "n", "c", "t", "i", "o", "n" >>

getMarginSize(v) ==
    CASE v.type = "string" /\ v.chars = narrow -> in050
      [] v.type = "string" /\ v.chars = wide -> in100
      [] v.type = "string" /\ v.chars = constructorKey -> inheritedMember
      [] OTHER -> in075

---------------------------------------------------------------------------
(* The request body and LatexService.createReplacements                    *)

NoPersonal == [type |-> "undefined", name |-> Undefined, email |-> Undefined]
Personal(n, e) == [type |-> "object", name |-> n, email |-> e]

NoCvData == [type |-> "undefined", personal |-> NoPersonal,
             summary |-> Undefined]
CvData(p, s) == [type |-> "object", personal |-> p, summary |-> s]

defaultName  == << "Y", "o", "u", "r", " ", "N", "a", "m", "e" >>
defaultEmail == << "y", "o", "u", "r", ".", "e", "m", "a", "i", "l", "@",
                   "e", "x", "a", "m", "p", "l", "e", ".", "c", "o", "m" >>

\* getNestedValue with the safe default left out: an absent field stays
\* undefined
getNestedValue_noDefault(cvData, key, defaultValue) ==
    IF cvData.type = "object" /\ cvData.personal.type = "object"
    THEN cvData.personal[key]
    ELSE Undefined

\* getNestedValue(cvData, 'personal.<key>', defaultValue), as a JS value
getNestedValue(cvData, key, defaultValue) ==
    IF cvData.type = "object" /\ cvData.personal.type = "object"
       /\ cvData.personal[key].type # "undefined"
    THEN cvData.personal[key]
    ELSE Str(defaultValue)

\* LatexService.createReplacements.  The requests explored carry no phone,
\* linkedIn, location, website, skills, experience, projects or education:
\* getNestedValue yields its default '' for the first four and the format
\* functions yield '' for an empty array.
createReplacements(cvData, options) ==
    [ NAME         |-> getNestedValue(cvData, "name", defaultName),
      EMAIL        |-> getNestedValue(cvData, "email", defaultEmail),
      PHONE        |-> Str(<< >>),
      LINKEDIN     |-> Str(<< >>),
      LOCATION     |-> Str(<< >>),
      WEBSITE      |-> Str(<< >>),
      SUMMARY      |-> IF cvData.summary.type = "string"
                       THEN cvData.summary ELSE Str(<< >>),
      SKILLS       |-> Str(<< >>),
      EXPERIENCE   |-> Str(<< >>),
      PROJECTS     |-> Str(<< >>),
      EDUCATION    |-> Str(<< >>),
      FONT_SIZE    |-> Str(validateFontSize(options.fontSize)),
      COLOR_SCHEME |-> Str(validateColorScheme(options.colorScheme)),
      MARGIN_SIZE  |-> Str(getMarginSize(options.margins)) ]

\* Object.entries(replacements): the placeholders in insertion order
ReplacementOrder ==
    << "NAME", "EMAIL", "PHONE", "LINKEDIN", "LOCATION", "WEBSITE",
       "SUMMARY", "SKILLS", "EXPERIENCE", "PROJECTS", "EDUCATION",
       "FONT_SIZE", "COLOR_SCHEME", "MARGIN_SIZE" >>

NoReplacements == [ k \in { ReplacementOrder[i] :
                              i \in 1..Len(ReplacementOrder) } |-> Undefined ]

\* a schema in which `template` is any string, defaulting to 'modern'
JoiRenderCVDetails_anyTemplate(b) ==
    (IF b.cvData.type # "object" THEN { "cvData" }
     ELSE IF b.cvData.personal.type # "object" THEN { "cvData.personal" }
          ELSE {})
    \cup JoiOptionsDetails(b.options)

\* schemas.renderCV applied to the body (abortEarly: false): the failing paths
JoiRenderCVDetails(b) ==
    (IF b.cvData.type # "object" THEN { "cvData" }
     ELSE IF b.cvData.personal.type # "object" THEN { "cvData.personal" }
          ELSE {})
    \cup (IF JoiValid(b.template, RenderCVTemplates, modern).ok
          THEN {} ELSE { "template" })
    \cup JoiOptionsDetails(b.options)

\* ... and the body it hands on (req.body = value)
JoiRenderCVValue(b) ==
    [ cvData   |-> b.cvData,
      template |-> JoiValid(b.template, RenderCVTemplates, modern).value,
      options  |-> JoiOptionsValue(b.options) ]

\* const { cvData, template = 'modern', options = {} } = req.body
Destructure(b) ==
    [ cvData   |-> b.cvData,
      template |-> IF b.template.type = "undefined" THEN Str(modern)
                   ELSE b.template,
      options  |-> IF b.options.present THEN b.options
                   ELSE Options(Undefined, Undefined, Undefined) ]

---------------------------------------------------------------------------
(* LatexService.populateTemplate: the template file and the substitution   *)

\* this.templatesDir, as path segments
templatesDir == <<
        << "s", "r", "c" >>, << "t", "e", "m", "p", "l", "a", "t", "e", "s" >> >>

cvTex == << "-", "c", "v", ".", "t", "e", "x" >>

\* the one element of a set of one element.  A value is bound to a name
\* through a one-element set where it is read many times afterwards, so
\* that it is computed once.
Only(S) == CHOOSE x \in S : TRUE

\* path.join(this.templatesDir, `${templateName}-cv.tex`): the name is split
\* at the separators (both '/' and '\\', as on win32), '.' and empty
\* segments are dropped and '..' removes the segment before it
RECURSIVE splitPath(_, _, _)
splitPath(s, i, seg) ==
    IF i > Len(s) THEN << seg >>
    ELSE IF s[i] \in { "/", "\\" }
         THEN << seg >> \o splitPath(s, i + 1, << >>)
         ELSE splitPath(s, i + 1, Append(seg, s[i]))

RECURSIVE normalizePath(_, _, _)
normalizePath(segs, i, acc) ==
    IF i > Len(segs) THEN acc
    ELSE CASE segs[i] \in { << >>, << "." >> } ->
                normalizePath(segs, i + 1, acc)
           [] segs[i] = << ".", "." >> ->
                normalizePath(segs, i + 1,
                              IF acc = << >> THEN acc
                              ELSE SubSeq(acc, 1, Len(acc) - 1))
           [] OTHER -> normalizePath(segs, i + 1, Append(acc, segs[i]))

path_join(dir, file) ==
    Only({ normalizePath(segs, 1, dir) :
             segs \in { splitPath(file, 1, << >>) } })

\* the files fs.access finds: <templatesDir>/modern-cv.tex, classic-cv.tex
TemplateFiles == { Append(templatesDir, n \o cvTex) : n \in TemplatesOnDisk }

\* the characters of a placeholder's name
PlaceholderChars(k) ==
    CASE k = "NAME" -> << "N", "A", "M", "E" >>
      [] k = "EMAIL" -> << "E", "M", "A", "I", "L" >>
      [] k = "PHONE" -> << "P", "H", "O", "N", "E" >>
      [] k = "LINKEDIN" -> << "L", "I", "N", "K", "E", "D", "I", "N" >>
      [] k = "LOCATION" -> << "L", "O", "C", "A", "T", "I", "O", "N" >>
      [] k = "WEBSITE" -> << "W", "E", "B", "S", "I", "T", "E" >>
      [] k = "SUMMARY" -> << "S", "U", "M", "M", "A", "R", "Y" >>
      [] k = "SKILLS" -> << "S", "K", "I", "L", "L", "S" >>
      [] k = "EXPERIENCE" ->
        << "E", "X", "P", "E", "R", "I", "E", "N", "C", "E" >>
      [] k = "PROJECTS" -> << "P", "R", "O", "J", "E", "C", "T", "S" >>
      [] k = "EDUCATION" -> << "E", "D", "U", "C", "A", "T", "I", "O", "N" >>
      [] k = "FONT_SIZE" -> << "F", "O", "N", "T", "_", "S", "I", "Z", "E" >>
      [] k = "COLOR_SCHEME" ->
        << "C", "O", "L", "O", "R", "_", "S", "C", "H", "E", "M", "E" >>
      [] k = "MARGIN_SIZE" ->
        << "M", "A", "R", "G", "I", "N", "_", "S", "I", "Z", "E" >>

\* the source of new RegExp(`<<${placeholder}>>`, 'g')
Marker(k) == << "<", "<" >> \o PlaceholderChars(k) \o << ">", ">" >>

\* templates/modern-cv.tex and templates/classic-cv.tex: every recognised
\* placeholder, the name both in the document properties and in the header
ModernTemplate ==
    << "\\", "c", "v", "[" >> \o Marker("FONT_SIZE") \o << "," >>
    \o Marker("MARGIN_SIZE") \o << "," >> \o Marker("COLOR_SCHEME")
    \o << "]", "\\", "a", "u", "t", "h", "o", "r", "{" >> \o Marker("NAME")
    \o << "}", "\\", "h", "e", "a", "d", "{" >> \o Marker("NAME")
    \o << "}", "{" >> \o Marker("EMAIL") \o << ";" >> \o Marker("PHONE")
    \o << ";" >> \o Marker("LINKEDIN") \o << ";" >> \o Marker("LOCATION")
    \o << ";" >> \o Marker("WEBSITE") \o << "}", "\\", "s", "{" >>
    \o Marker("SUMMARY") \o << "}", "\\", "s", "{" >> \o Marker("SKILLS")
    \o << "}", "\\", "s", "{" >> \o Marker("EXPERIENCE")
    \o << "}", "\\", "s", "{" >> \o Marker("PROJECTS")
    \o << "}", "\\", "s", "{" >> \o Marker("EDUCATION") \o << "}" >>

ClassicTemplate ==
    << "\\", "c", "l", "[" >> \o Marker("FONT_SIZE") \o << "," >>
    \o Marker("MARGIN_SIZE") \o << "," >> \o Marker("COLOR_SCHEME")
    \o << "]", "\\", "h", "e", "a", "d", "{" >> \o Marker("NAME")
    \o << "}", "{" >> \o Marker("EMAIL") \o << ";" >> \o Marker("PHONE")
    \o << ";" >> \o Marker("LINKEDIN") \o << ";" >> \o Marker("LOCATION")
    \o << ";" >> \o Marker("WEBSITE") \o << "}", "\\", "s", "{" >>
    \o Marker("SUMMARY") \o << "}", "\\", "s", "{" >> \o Marker("EDUCATION")
    \o << "}", "\\", "s", "{" >> \o Marker("EXPERIENCE")
    \o << "}", "\\", "s", "{" >> \o Marker("PROJECTS")
    \o << "}", "\\", "s", "{" >> \o Marker("SKILLS") \o << "}" >>

\* fs.readFile(templatePath, 'utf8')
fs_readFile(p) ==
    IF p = Append(templatesDir, classic \o cvTex) THEN ClassicTemplate
    ELSE ModernTemplate

\* String(text) for the values that reach escapeLatex
RECURSIVE decimal(_)
decimal(n) ==
    IF n < 10 THEN << CHOOSE c \in Digits : digitValue(c) = n >>
    ELSE Append(decimal(n \div 10),
                CHOOSE c \in Digits : digitValue(c) = n % 10)

String(v) == IF v.type = "number" THEN decimal(v.num) ELSE v.chars

\* text.replace(/c/g, r) for a single character c and a replacement r that
\* holds no '$' pattern, from position i on
RECURSIVE replaceChar(_, _, _, _)
replaceChar(s, c, r, i) ==
    IF i > Len(s) THEN << >>
    ELSE (IF s[i] = c THEN r ELSE << s[i] >>) \o replaceChar(s, c, r, i + 1)

textbackslash    ==
        << "\\", "t", "e", "x", "t", "b", "a", "c", "k", "s", "l", "a", "s", "h",
           "{", "}" >>
textasciicircum  ==
        << "\\", "t", "e", "x", "t", "a", "s", "c", "i", "i", "c", "i", "r", "c",
           "u", "m", "{", "}" >>
textasciitilde   ==
        << "\\", "t", "e", "x", "t", "a", "s", "c", "i", "i", "t", "i", "l", "d",
           "e", "{", "}" >>

\* the replaces of escapeLatex, in the order they are chained
EscapeSteps ==
    << << "\\", textbackslash >>,
       << "{", << "\\", "{" >> >>,
       << "}", << "\\", "}" >> >>,
       << "$", << "\\", "$" >> >>,
       << "&", << "\\", "&" >> >>,
       << "%", << "\\", "%" >> >>,
       << "#", << "\\", "#" >> >>,
       << "^", textasciicircum >>,
       << "_", << "\\", "_" >> >>,
       << "~", textasciitilde >> >>

\* the chain of replaces from the k-th on, each applied to the result of
\* the one before it
RECURSIVE escapeFrom(_, _)
escapeFrom(text, k) ==
    IF k > Len(EscapeSteps) THEN text
    ELSE Only({ escapeFrom(t, k + 1) :
                  t \in { replaceChar(text, EscapeSteps[k][1],
                                      EscapeSteps[k][2], 1) } })

\* LatexService.escapeLatex
escapeLatex(v) ==
    IF v.type = "undefined" THEN << >>
    ELSE Only({ escapeFrom(t, 1) : t \in { String(v) } })

\* the first occurrence of pat in text at or after position from, 0 if none
firstMatch(text, pat, from) ==
    Only({ IF m = {} THEN 0 ELSE CHOOSE i \in m : \A j \in m : i <= j :
             m \in { { i \in from..(Len(text) - Len(pat) + 1) :
                         /\ text[i] = pat[1]
                         /\ SubSeq(text, i, i + Len(pat) - 1) = pat } } })

\* the character U+0060 (grave accent), which a TLA+ string cannot hold
grave == "grave"

\* GetSubstitution of String.prototype.replace for a replacement string and
\* a pattern without groups: $$ is '$', $& the match, $ followed by a grave
\* accent the text before the match, $' the text after it; any other '$'
\* stands for itself
RECURSIVE GetSubstitution(_, _, _, _, _)
GetSubstitution(repl, k, text, pos, len) ==
    IF k > Len(repl) THEN << >>
    ELSE IF repl[k] = "$" /\ k < Len(repl)
                /\ repl[k + 1] \in { "$", "&", grave, "'" }
         THEN (CASE repl[k + 1] = "$" -> << "$" >>
                 [] repl[k + 1] = "&" -> SubSeq(text, pos, pos + len - 1)
                 [] repl[k + 1] = grave -> SubSeq(text, 1, pos - 1)
                 [] OTHER -> SubSeq(text, pos + len, Len(text)))
              \o GetSubstitution(repl, k + 2, text, pos, len)
         ELSE << repl[k] >> \o GetSubstitution(repl, k + 1, text, pos, len)

\* text.replace(new RegExp(pat, 'g'), repl) for a literal pat
RECURSIVE replaceFrom(_, _, _, _)
replaceFrom(text, pat, repl, from) ==
    Only({ IF i = 0 THEN SubSeq(text, from, Len(text))
           ELSE SubSeq(text, from, i - 1)
                \o GetSubstitution(repl, 1, text, i, Len(pat))
                \o replaceFrom(text, pat, repl, i + Len(pat)) :
             i \in { firstMatch(text, pat, from) } })

String_replace(text, pat, repl) ==
    Only({ replaceFrom(t, p, r, 1) :
             t \in { text }, p \in { pat }, r \in { repl } })

\* the loop of populateTemplate over Object.entries(replacements)
RECURSIVE substitute(_, _, _)
substitute(template, repl, k) ==
    IF k > Len(ReplacementOrder) THEN template
    ELSE Only({ substitute(t, repl, k + 1) :
                  t \in { String_replace(
                              template, Marker(ReplacementOrder[k]),
                              escapeLatex(repl[ReplacementOrder[k]])) } })

\* template.match(/<<[^>]+>>/g): is there a match
remainingPlaceholders(t) ==
    \E i \in 1..(Len(t) - 4) :
        /\ t[i] = "<" /\ t[i + 1] = "<" /\ t[i + 2] # ">"
        /\ \E j \in (i + 3)..(Len(t) - 1) :
              /\ t[j] = ">" /\ t[j + 1] = ">"
              /\ \A k \in (i + 2)..(j - 1) : t[k] # ">"

---------------------------------------------------------------------------
(* The render requests explored                                            *)

Modern == << "M", "o", "d", "e", "r", "n" >>
unknownTemplate == << "u", "n", "k", "n", "o", "w", "n", "-", "t", "e", "m",
                      "p", "l", "a", "t", "e" >>
dotDotModern == << ".", ".", "/", "m", "o", "d", "e", "r", "n" >>
dotDot == << ".", ".", "/" >>

sampleName    == << "A", "n", "n" >>
sampleEmail   == << "a", "@", "b", ".", "c" >>
sampleSummary == << "D", "e", "v" >>

RenderTemplates ==
    { Undefined, Str(modern), Str(classic), Str(Modern), Str(unknownTemplate),
      Str(dotDotModern), Str(dotDot), Str(<< >>), Num(7) }

RenderCvDatas ==
    { NoCvData, CvData(NoPersonal, Undefined),
      CvData(Personal(Str(sampleName), Str(sampleEmail)), Str(sampleSummary)) }
    \cup { CvData(Personal(n, e), Undefined) :
             n \in { Undefined, Str(sampleName) },
             e \in { Undefined, Str(sampleEmail) } }

RenderOptions ==
    { NoOptions,
      Options(Str(pt("1", "1")), Undefined, Str(blue)),
      Options(Num(12), Str(wide), Undefined),
      Options(Str(pt("1", "4")), Str(narrow), Str(teal)) }

\* sizes the compiled PDF may have
PdfSizes == { 0, 1024, maxFileSize, maxFileSize + 1 }

---------------------------------------------------------------------------
(* The pipeline                                                            *)

\* what makeRequest has returned before it returns anything
NoReply == [json |-> "none", items |-> << >>, text |-> ""]

\* no call of makeRequest is under way
NoApiCall ==
    /\ caller = "none"
    /\ reqPc = "idle"
    /\ attempt = 0
    /\ slept = << >>
    /\ errors = << >>
    /\ reply = NoReply

\* values of the tailoring variables before anything is computed
NoProfile    == [name |-> "", work_experience |-> << >>, skills |-> << >>,
                 projects |-> << >>]
NoKeywords   == [keywords |-> << >>, method |-> "none"]
NoCvAnalysis == [threw |-> FALSE, matchScore |-> 0, matchedKeywords |-> << >>,
                 missingKeywords |-> << >>]
NoSections   == [summary |-> "", experience |-> << >>, skills |-> << >>,
                 projects |-> << >>]
NoLoop       == [experiences |-> << >>, e |-> 0, bullets |-> << >>]
NoTailoredCV == [summary |-> "", experience |-> << >>, skills |-> << >>,
                 projects |-> << >>, matchedKeywords |-> << >>,
                 relevanceScore |-> 0]

\* values of the other services' variables before they are used
NoContent  == [has |-> { }, summary |-> "", experience |-> << >>,
               skills |-> << >>, projects |-> << >>]
NoResult   == [optimized |-> FALSE, content |-> NoContent,
               analysis |-> NoCvAnalysis, improvement |-> 0]
NoResponse == [status |-> 0, total |-> 0, successful |-> 0, failed |-> 0]
NoDecision == [key |-> "", status |-> 0]
NoCall     == [op |-> "none", pc |-> "idle", email |-> "", password |-> "",
               user |-> 0, outcome |-> "none"]

\* optimizeContent has not been called
NoOptimizing ==
    /\ cvContent = NoContent
    /\ targetScore = 0
    /\ result = NoResult
    /\ submitted = << >>

\* no multi-unit operation has been called
NoBatch ==
    /\ batchOp = "none"
    /\ units = << >>
    /\ unitIdx = 0
    /\ results = << >>
    /\ batchErrors = << >>
    /\ res = NoResponse

\* const userRateLimit = new Map(): no request has been seen
NoThrottling ==
    /\ userRateLimit = << >>
    /\ admitted = << >>
    /\ decision = NoDecision

\* this.users = new Map() of the constructor of AuthService: no user, no
\* call under way
NoAccounts ==
    /\ users = << >>
    /\ calls = << NoCall, NoCall >>

NoServices ==
    /\ NoOptimizing
    /\ NoBatch
    /\ NoThrottling
    /\ NoAccounts
    /\ now = 0

\* the tailoring services are not in use
NoTailoring ==
    /\ NoApiCall
    /\ op = "none"
    /\ jobText = ""
    /\ profile = NoProfile
    /\ stage = "idle"
    /\ keywordAnalysis = NoKeywords
    /\ jobKeywords = << >>
    /\ cvAnalysis = NoCvAnalysis
    /\ sections = NoSections
    /\ loop = NoLoop
    /\ tailoredCV = NoTailoredCV

\* a request that has arrived and has not been handled yet
Arrived ==
    /\ body = request
    /\ pc = "request"
    /\ outcome = "none"
    /\ details = {}
    /\ templateName = << >>
    /\ templatePath = << >>
    /\ latexContent = << >>
    /\ replacements = NoReplacements
    /\ tempFiles = {}
    /\ tempPdfSize = NoFile
    /\ outputPdf = NoFile
    /\ proc = "none"
    /\ procStage = 0
    /\ exitCode = NoCode
    /\ timerArmed = FALSE
    /\ timedOut = FALSE
    /\ killSent = FALSE
    /\ compileResult = "none"
    /\ cleanIdx = 1
    /\ fileSize = NoFile

Init ==
    /\ entry \in { "route", "direct" }
    /\ request \in [ cvData : RenderCvDatas, template : RenderTemplates,
                     options : RenderOptions ]
    /\ Arrived
    /\ NoTailoring
    /\ NoServices

\* validation_middleware.validateRequest('renderCV')
validateRequest ==
    /\ pc = "request" /\ entry = "route"
    /\ IF JoiRenderCVDetails(body) = {}
       THEN /\ pc' = "controller"
            /\ body' = JoiRenderCVValue(body)
            /\ UNCHANGED << outcome, details >>
       ELSE /\ pc' = "responded"
            /\ outcome' = "VALIDATION_ERROR"
            /\ details' = JoiRenderCVDetails(body)
            /\ UNCHANGED body
    /\ UNCHANGED << aiVars, webVars >>
    /\ UNCHANGED << reqIn, jobVars, fsVars, procVars >>

\* PDFController.generatePDF up to its call of latexService.generatePDF
PDFController_generatePDF ==
    /\ pc = "controller"
    /\ IF body.cvData.type # "object" \/ body.cvData.personal.type # "object"
       THEN /\ pc' = "responded"
            /\ outcome' = "BAD_REQUEST"
            /\ details' = { "cvData.personal" }
            /\ UNCHANGED body
       ELSE /\ pc' = "service"
            /\ body' = Destructure(body)
            /\ UNCHANGED << outcome, details >>
    /\ UNCHANGED << aiVars, webVars >>
    /\ UNCHANGED << reqIn, jobVars, fsVars, procVars >>

\* PDFController.generatePDFAsync: no schema, no check of cvData
PDFController_generatePDFAsync ==
    /\ pc = "request" /\ entry = "direct"
    /\ pc' = "service"
    /\ body' = Destructure(body)
    /\ UNCHANGED << aiVars, webVars >>
    /\ UNCHANGED << reqIn, outcome, details, jobVars, fsVars, procVars >>

\* LatexService.generatePDF, lines 23-44: input check, sanitize, job id
generatePDF ==
    /\ pc = "service"
    /\ IF body.cvData.type # "object"
       THEN /\ pc' = "thrown"
            /\ outcome' = "invalid_cv"
            /\ UNCHANGED templateName
       ELSE /\ pc' = "populate"
            /\ templateName' = sanitizeTemplateName(body.template)
            /\ UNCHANGED outcome
    /\ UNCHANGED << aiVars, webVars >>
    /\ UNCHANGED << reqIn, body, details, templatePath, latexContent,
                    replacements, fileSize, cleanIdx, fsVars, procVars >>

\* LatexService.populateTemplate
populateTemplate ==
    /\ pc = "populate"
    /\ \E p \in { path_join(templatesDir, templateName \o cvTex) } :
          /\ templatePath' = p
          /\ IF p \in TemplateFiles
             THEN \E r \in { createReplacements(body.cvData, body.options) } :
                     /\ replacements' = r
                     /\ latexContent' = substitute(fs_readFile(p), r, 1)
                     /\ pc' = "writeTex"
                     /\ UNCHANGED outcome
             ELSE /\ outcome' = "template_not_found"
                  /\ pc' = "failed"
                  /\ UNCHANGED << replacements, latexContent >>
    /\ UNCHANGED << aiVars, webVars >>
    /\ UNCHANGED << reqIn, body, details, templateName, fileSize, cleanIdx,
                    fsVars, procVars >>

\* await fs.writeFile(texFilePath, latexContent, 'utf8')
fs_writeFile ==
    /\ pc = "writeTex"
    /\ tempFiles' = tempFiles \cup { ".tex" }
    /\ pc' = "spawn"
    /\ UNCHANGED << aiVars, webVars >>
    /\ UNCHANGED << reqIn, body, outcome, details, jobVars, tempPdfSize,
                    outputPdf, procVars >>

\* compileToPDF, lines 415-439: spawn pdflatex and arm the timer.  The
\* `timeout` option of spawn arms a second timer of the same delay just
\* before; it runs in the same timers pass and sends the same signal.
compileToPDF ==
    /\ pc = "spawn"
    /\ \E started \in BOOLEAN :
          proc' = IF started THEN "running" ELSE "spawn_error"
    /\ timerArmed' = TRUE
    /\ compileResult' = "pending"
    /\ pc' = "compiling"
    /\ UNCHANGED << aiVars, webVars >>
    /\ UNCHANGED << reqIn, body, outcome, details, jobVars, fsVars,
                    procStage, exitCode, timedOut, killSent >>

\* resolve()/reject(): a promise keeps its first settlement
settle(r) == IF compileResult = "pending" THEN r ELSE compileResult

\* pdflatex opens its next output file in tempDir.  A child that has been
\* sent SIGTERM keeps running until the signal ends it.
pdflatex_write ==
    /\ proc \in { "running", "killed" }
    /\ procStage < Len(CompilerOutputs)
    /\ procStage' = procStage + 1
    /\ tempFiles' = tempFiles \cup { CompilerOutputs[procStage + 1] }
    /\ IF CompilerOutputs[procStage + 1] = ".pdf"
       THEN \E sz \in PdfSizes : tempPdfSize' = sz
       ELSE UNCHANGED tempPdfSize
    /\ UNCHANGED << aiVars, webVars >>
    /\ UNCHANGED << reqIn, body, pc, outcome, details, jobVars, outputPdf,
                    proc, exitCode, timerArmed, timedOut, killSent,
                    compileResult >>

\* pdflatex exits on its own: 0, or 1 under -halt-on-error
pdflatex_exit ==
    /\ proc = "running"
    /\ \E code \in { 0, 1 } : exitCode' = code
    /\ proc' = "exited"
    /\ UNCHANGED << aiVars, webVars >>
    /\ UNCHANGED << reqIn, body, pc, outcome, details, jobVars, fsVars,
                    procStage, timerArmed, timedOut, killSent,
                    compileResult >>

\* SIGTERM ends the child: `code` is null
pdflatex_terminated ==
    /\ proc = "killed"
    /\ exitCode' = SignalCode
    /\ proc' = "exited"
    /\ UNCHANGED << aiVars, webVars >>
    /\ UNCHANGED << reqIn, body, pc, outcome, details, jobVars, fsVars,
                    procStage, timerArmed, timedOut, killSent,
                    compileResult >>

\* the same callback without its reject: the 'close' handler is left to
\* settle the promise
on_timeout_noReject ==
    /\ timerArmed
    /\ proc \in { "running", "exited" }
    /\ timedOut' = TRUE
    /\ killSent' = TRUE
    /\ proc' = IF proc = "running" THEN "killed" ELSE proc
    /\ timerArmed' = FALSE
    /\ UNCHANGED << aiVars, webVars >>
    /\ UNCHANGED << reqIn, body, pc, outcome, details, jobVars, fsVars,
                    procStage, exitCode, compileResult >>

\* the setTimeout callback of compileToPDF, lines 435-439
on_timeout ==
    /\ timerArmed
    /\ proc \in { "running", "exited" }
    /\ timedOut' = TRUE
    /\ killSent' = TRUE
    /\ proc' = IF proc = "running" THEN "killed" ELSE proc
    /\ compileResult' = settle("rejected_timeout")
    /\ timerArmed' = FALSE
    /\ UNCHANGED << aiVars, webVars >>
    /\ UNCHANGED << reqIn, body, pc, outcome, details, jobVars, fsVars,
                    procStage, exitCode >>

\* pdflatex.on('close', ...), lines 449-475
on_close ==
    /\ proc = "exited"
    /\ proc' = "closed"
    /\ timerArmed' = FALSE
    /\ IF timedOut
       THEN UNCHANGED << compileResult, outputPdf >>
       ELSE IF exitCode = 0
            THEN IF ".pdf" \in tempFiles
                 THEN /\ outputPdf' = tempPdfSize
                      /\ compileResult' = settle("resolved")
                 ELSE /\ compileResult' = settle("rejected_move")
                      /\ UNCHANGED outputPdf
            ELSE /\ compileResult' = settle("rejected_compile")
                 /\ UNCHANGED outputPdf
    /\ UNCHANGED << aiVars, webVars >>
    /\ UNCHANGED << reqIn, body, pc, outcome, details, jobVars, tempFiles,
                    tempPdfSize, procStage, exitCode, timedOut, killSent >>

\* pdflatex.on('error', ...), lines 477-482: the child could not be started
on_error ==
    /\ proc = "spawn_error"
    /\ proc' = "errored"
    /\ timerArmed' = FALSE
    /\ compileResult' = IF timedOut THEN compileResult
                        ELSE settle("rejected_spawn")
    /\ UNCHANGED << aiVars, webVars >>
    /\ UNCHANGED << reqIn, body, pc, outcome, details, jobVars, fsVars,
                    procStage, exitCode, timedOut, killSent >>

ErrorOf(r) ==
    CASE r = "rejected_timeout" -> "timeout"
      [] r = "rejected_compile" -> "compiler_error"
      [] r = "rejected_move"    -> "move_failed"
      [] r = "rejected_spawn"   -> "spawn_failed"
      [] OTHER -> "none"

\* generatePDF resumes from `await this.compileToPDF(...)`, line 54
generatePDF_resume ==
    /\ pc = "compiling"
    /\ compileResult \notin { "none", "pending" }
    /\ IF compileResult = "resolved"
       THEN pc' = "sizeCheck" /\ UNCHANGED outcome
       ELSE pc' = "failed" /\ outcome' = ErrorOf(compileResult)
    /\ UNCHANGED << aiVars, webVars >>
    /\ UNCHANGED << reqIn, body, details, jobVars, fsVars, procVars >>

\* LatexService.getFileSize: stats.size, 0 when stat fails
getFileSize(size) == IF size = NoFile THEN 0 ELSE size

\* lines 56-64: the size check on the PDF in outputDir
checkSize ==
    /\ pc = "sizeCheck"
    /\ fileSize' = getFileSize(outputPdf)
    /\ IF getFileSize(outputPdf) = 0
       THEN pc' = "failed" /\ outcome' = "empty_output"
       ELSE IF getFileSize(outputPdf) > maxFileSize
            THEN pc' = "failed" /\ outcome' = "oversized"
            ELSE pc' = "succeeded" /\ UNCHANGED outcome
    /\ UNCHANGED << aiVars, webVars >>
    /\ UNCHANGED << reqIn, body, details, templateName, templatePath,
                    latexContent, replacements, cleanIdx, fsVars, procVars >>

\* the same with the catch block rethrowing before it has cleaned up
cleanupTempFiles_notOnError ==
    /\ pc \in { "succeeded", "failed", "cleanup" }
    /\ IF pc = "failed"
       THEN pc' = "raised" /\ UNCHANGED << tempFiles, cleanIdx >>
       ELSE /\ tempFiles' = tempFiles \ { CleanupExtensions[cleanIdx] }
            /\ cleanIdx' = cleanIdx + 1
            /\ pc' = IF cleanIdx < Len(CleanupExtensions) THEN "cleanup"
                     ELSE "returned"
    /\ UNCHANGED << aiVars, webVars >>
    /\ UNCHANGED << reqIn, body, outcome, details, templateName,
                    templatePath, latexContent, replacements, fileSize,
                    tempPdfSize, outputPdf, procVars >>

\* LatexService.cleanupTempFiles: one fs.unlink per pass of its loop, errors
\* ignored; after the last one generatePDF returns the result (line 79) or
\* rethrows the error (line 93)
cleanupTempFiles ==
    /\ pc \in { "succeeded", "failed", "cleanup" }
    /\ tempFiles' = tempFiles \ { CleanupExtensions[cleanIdx] }
    /\ cleanIdx' = cleanIdx + 1
    /\ pc' = IF cleanIdx < Len(CleanupExtensions) THEN "cleanup"
             ELSE IF outcome = "none" THEN "returned" ELSE "raised"
    /\ UNCHANGED << aiVars, webVars >>
    /\ UNCHANGED << reqIn, body, outcome, details, templateName,
                    templatePath, latexContent, replacements, fileSize,
                    tempPdfSize, outputPdf, procVars >>

Next ==
    \/ validateRequest
    \/ PDFController_generatePDF
    \/ PDFController_generatePDFAsync
    \/ generatePDF
    \/ populateTemplate
    \/ fs_writeFile
    \/ compileToPDF
    \/ pdflatex_write
    \/ pdflatex_exit
    \/ pdflatex_terminated
    \/ on_timeout
    \/ on_close
    \/ on_error
    \/ generatePDF_resume
    \/ checkSize
    \/ cleanupTempFiles

Spec == Init /\ [][Next]_vars

\* The scheduling the runtime guarantees: a continuation that can run does
\* run, a due timer fires and a delivered event is handled.  Nothing makes
\* pdflatex write, exit or die.
FairSpec ==
    /\ Spec
    /\ WF_vars(validateRequest \/ PDFController_generatePDF
                 \/ PDFController_generatePDFAsync \/ generatePDF
                 \/ populateTemplate \/ fs_writeFile \/ compileToPDF
                 \/ generatePDF_resume \/ checkSize \/ cleanupTempFiles)
    /\ WF_vars(on_timeout)
    /\ WF_vars(on_close)
    /\ WF_vars(on_error)

---------------------------------------------------------------------------
(* Request handling up to the populated source, over wider inputs: every   *)
(* template name, option value and field value up to the bounds below.     *)

MaxNameLen  == 3
MaxValueLen == 2

\* characters for template names: kept ones, an upper-case letter, and the
\* ones a path is built from
NameAlphabet == { "a", "Z", "9", "-", "_", ".", "/", "\\" }

\* characters for field values: a plain one, the ten escapeLatex handles,
\* and the ones replacement patterns and placeholders are written with
FieldAlphabet == { "a", "\\", "{", "}", "$", "&", "%", "#", "^", "_", "~",
                   "'", grave, "<", ">" }

RECURSIVE Texts(_, _)
Texts(alphabet, n) ==
    IF n = 0 THEN { << >> }
    ELSE Texts(alphabet, n - 1)
         \cup { Append(t, c) : t \in Texts(alphabet, n - 1), c \in alphabet }

huge == << "h", "u", "g", "e" >>
pink == << "p", "i", "n", "k" >>
MarkerX == << "<", "<", "X", ">", ">" >>

TemplateInputs ==
    RenderTemplates \cup { Str(t) : t \in Texts(NameAlphabet, MaxNameLen) }

FontSizeInputs ==
    { Undefined, Str(pt("1", "0")), Str(pt("1", "1")), Str(pt("1", "2")),
      Str(pt("1", "4")), Str(pt("2", "0")), Str(<< "1", "2" >>), Num(12),
      Num(20) }

MarginInputs ==
    { Undefined, Str(narrow), Str(normal), Str(wide), Str(huge),
      Str(constructorKey) }

ColorSchemeInputs ==
    { Undefined, Str(blue), Str(black), Str(green), Str(red), Str(teal),
      Str(pink) }

OptionInputs ==
    { NoOptions }
    \cup { Options(f, m, c) : f \in FontSizeInputs, m \in MarginInputs,
                              c \in ColorSchemeInputs }

sampleCv ==
    CvData(Personal(Str(sampleName), Str(sampleEmail)), Str(sampleSummary))

FieldInputs ==
    { CvData(Personal(Str(v), Str(sampleEmail)), Str(sampleSummary)) :
        v \in Texts(FieldAlphabet, MaxValueLen) }
    \cup { CvData(Personal(Str(n), Str(sampleEmail)), Str(w)) :
             n \in { sampleName, MarkerX, Marker("SUMMARY") },
             w \in { sampleSummary, MarkerX, Marker("NAME") } }

PopulateRequests ==
    { [cvData |-> sampleCv, template |-> t, options |-> NoOptions] :
        t \in TemplateInputs }
    \cup { [cvData |-> sampleCv, template |-> t, options |-> o] :
             t \in { Undefined, Str(classic) }, o \in OptionInputs }
    \cup { [cvData |-> c, template |-> Undefined, options |-> NoOptions] :
             c \in FieldInputs }

InitPopulate ==
    /\ entry \in { "route", "direct" }
    /\ request \in PopulateRequests
    /\ Arrived
    /\ NoTailoring
    /\ NoServices

NextPopulate ==
    \/ validateRequest
    \/ PDFController_generatePDF
    \/ PDFController_generatePDFAsync
    \/ generatePDF
    \/ populateTemplate

PopulateSpec == InitPopulate /\ [][NextPopulate]_vars

---------------------------------------------------------------------------
(* ClaudeService.makeRequest: the retry loop around messages.create        *)

\* this.maxRetries and this.retryDelay of the constructor
maxRetries == 3
retryDelay == 1000

\* Math.pow(2, n)
RECURSIVE Pow2(_)
Pow2(n) == IF n = 0 THEN 1 ELSE 2 * Pow2(n - 1)

\* no render request is under way
NoRender ==
    /\ entry = "route"
    /\ request = [cvData |-> NoCvData, template |-> Undefined,
                  options |-> NoOptions]
    /\ Arrived

\* What `await this.client.messages.create(...)` can end with: a response
\* with text, a response without text, an error that carries an HTTP status,
\* or an error without one (connection failure).
Content(c)     == [kind |-> "content", status |-> 0, content |-> c]
EmptyResponse  == [kind |-> "empty", status |-> 0, content |-> NoReply]
StatusError(n) == [kind |-> "status", status |-> n, content |-> NoReply]
ConnectionError == [kind |-> "connection", status |-> 0, content |-> NoReply]

\* statuses the API answers with
ClientErrorStatuses  == { 400, 401, 404 }
RetryableStatuses    == { 429, 500, 503 }

\* a text reply and a reply wrapped in quotes
PlainText(t)  == [json |-> "invalid", items |-> << >>, text |-> t]

ApiFailures ==
    { EmptyResponse, ConnectionError }
    \cup { StatusError(n) : n \in ClientErrorStatuses \cup RetryableStatuses }

\* error.status >= 400 && error.status < 500 && error.status !== 429; the
\* comparisons are false for an error without a status
IsClientError(o) ==
    o.kind = "status" /\ o.status >= 400 /\ o.status < 500 /\ o.status # 429

\* a ClaudeService method calls this.makeRequest(prompt, options)
makeRequest(c) ==
    /\ reqPc \in { "idle", "returned", "thrown" }
    /\ caller' = c
    /\ reqPc' = "calling"
    /\ attempt' = 1
    /\ slept' = << >>
    /\ errors' = << >>
    /\ reply' = NoReply

\* one pass of the loop body from the end of `await messages.create`, with
\* every error retried
messages_create_retryAll(o) ==
    /\ reqPc = "calling"
    /\ IF o.kind = "content"
       THEN /\ reply' = o.content
            /\ reqPc' = "returned"
            /\ UNCHANGED << slept, errors >>
       ELSE /\ errors' = Append(errors, o)
            /\ UNCHANGED reply
            /\ IF attempt = maxRetries
               THEN reqPc' = "thrown" /\ UNCHANGED slept
               ELSE /\ reqPc' = "sleeping"
                    /\ slept' = Append(slept,
                                       retryDelay * Pow2(attempt - 1))
    /\ UNCHANGED << caller, attempt >>
    /\ UNCHANGED otherVars

\* one pass of the loop body from the end of `await messages.create`: return
\* the content, or log the error and throw, or start the sleep before the
\* next attempt
messages_create(o) ==
    /\ reqPc = "calling"
    /\ IF o.kind = "content"
       THEN /\ reply' = o.content
            /\ reqPc' = "returned"
            /\ UNCHANGED << slept, errors >>
       ELSE /\ errors' = Append(errors, o)
            /\ UNCHANGED reply
            /\ IF IsClientError(o) \/ attempt = maxRetries
               THEN reqPc' = "thrown" /\ UNCHANGED slept
               ELSE /\ reqPc' = "sleeping"
                    /\ slept' = Append(slept,
                                       retryDelay * Pow2(attempt - 1))
    /\ UNCHANGED << caller, attempt >>
    /\ UNCHANGED otherVars

\* the timer of this.sleep fires: the loop goes to its next attempt
sleep_done ==
    /\ reqPc = "sleeping"
    /\ attempt' = attempt + 1
    /\ reqPc' = "calling"
    /\ UNCHANGED << caller, slept, errors, reply >>
    /\ UNCHANGED otherVars

\* makeRequest has returned its content or has thrown
requestDone == reqPc \in { "returned", "thrown" }

\* the ClaudeService methods that call makeRequest
Callers == { "extractKeywords", "rewriteBullet", "generateSummary",
             "generateSkillsList" }

\* texts the API answers with in RequestSpec
RequestContents == { PlainText("text") }

ApiOutcomes == ApiFailures \cup { Content(c) : c \in RequestContents }

\* one of the methods starts a request; no other request is under way
ClaudeService_call(c) ==
    /\ reqPc = "idle"
    /\ makeRequest(c)
    /\ UNCHANGED otherVars

InitRequest ==
    /\ NoRender
    /\ NoTailoring
    /\ NoServices

NextRequest ==
    \/ \E c \in Callers : ClaudeService_call(c)
    \/ \E o \in ApiOutcomes : messages_create(o)
    \/ sleep_done

RequestSpec == InitRequest /\ [][NextRequest]_vars

\* the API call settles (the client has a request timeout) and the timer of
\* sleep fires
FairRequestSpec ==
    /\ RequestSpec
    /\ WF_vars(\E o \in ApiOutcomes : messages_create(o))
    /\ WF_vars(sleep_done)

---------------------------------------------------------------------------
(* Strings and arrays of the tailoring services.  A JavaScript string is a *)
(* TLA+ string, an array is a sequence.                                    *)

charAt(s, i) == SubSeq(s, i, i)

\* String.prototype.toLowerCase on a string
RECURSIVE lowerRange(_, _, _)
lowerRange(s, a, b) ==
    IF a > b THEN ""
    ELSE IF a = b THEN toLowerCase(charAt(s, a))
    ELSE lowerRange(s, a, (a + b) \div 2)
           \o lowerRange(s, (a + b) \div 2 + 1, b)

lowerCase(s) == lowerRange(s, 1, Len(s))

\* the smallest element of a non-empty set of integers
Min(S) == CHOOSE i \in S : \A j \in S : i <= j

\* String.prototype.includes
includes(s, t) ==
    \E i \in 1..(Len(s) - Len(t) + 1) : SubSeq(s, i, i + Len(t) - 1) = t

\* \w of a regular expression
IsWordChar(c) ==
    c \in LowerCaseLetters \cup UpperCaseLetters \cup Digits \cup { "_" }

\* \b at position i of s, between s[i-1] and s[i]
IsBoundary(s, i) ==
    (i > 1 /\ IsWordChar(charAt(s, i - 1)))
        # (i <= Len(s) /\ IsWordChar(charAt(s, i)))

\* the literal t stands at position i of s between two \b
MatchesAt(s, t, i) ==
    /\ i + Len(t) - 1 <= Len(s)
    /\ SubSeq(s, i, i + Len(t) - 1) = t
    /\ IsBoundary(s, i)
    /\ IsBoundary(s, i + Len(t))

\* s.match(/\b(t1|t2|...)\b/g) || [] for literal alternatives: the scan
\* takes the first position at or behind i where an alternative matches,
\* there the first alternative that does, and goes on behind the match;
\* at holds the positions where some alternative matches
RECURSIVE matchesFrom(_, _, _, _)
matchesFrom(s, terms, at, i) ==
    Only({ IF rest = {} THEN << >>
           ELSE Only({ << terms[k] >>
                         \o matchesFrom(s, terms, rest,
                                        Min(rest) + Len(terms[k])) :
                       k \in { Min({ k \in 1..Len(terms) :
                                       MatchesAt(s, terms[k], Min(rest)) }) } }) :
           rest \in { { j \in at : j >= i } } })

matchAlternatives(s, terms) ==
    matchesFrom(s, terms,
                { j \in 1..Len(s) :
                    \E k \in 1..Len(terms) : MatchesAt(s, terms[k], j) },
                1)

\* the maximal runs of characters of a class in s, each from its start to
\* the last character of the class before the next other one
runsFrom(s, In(_), starts) ==
    [n \in 1..Cardinality(starts) |->
       Only({ SubSeq(s, a,
                     Min({ b \in a..Len(s) :
                             b = Len(s) \/ ~ In(charAt(s, b + 1)) })) :
              a \in { CHOOSE a \in starts :
                        Cardinality({ j \in starts : j <= a }) = n } })]

runs(s, In(_)) ==
    runsFrom(s, In, { i \in 1..Len(s) :
                        In(charAt(s, i)) /\ (i = 1 \/ ~ In(charAt(s, i - 1))) })

\* s.match(/\b\w+\b/g) || []
words(s) == runs(s, IsWordChar)

\* the non-empty elements of s.split(/\s+/)
splitSpaces(s) == runs(s, LAMBDA c : c # " ")

\* Array.prototype.sort((a, b) => key(b) - key(a)): stable, each element
\* goes behind the elements whose key is not smaller
RECURSIVE sortDescending(_, _, _, _)
sortDescending(a, key(_), i, sorted) ==
    IF i > Len(a) THEN sorted
    ELSE Only({ Only({ sortDescending(a, key, i + 1, s2) :
                       s2 \in { SubSeq(sorted, 1, n) \o << a[i] >>
                                  \o SubSeq(sorted, n + 1, Len(sorted)) } }) :
                n \in { Cardinality({ j \in 1..Len(sorted) :
                                        key(sorted[j]) >= key(a[i]) }) } })

\* Array.prototype.includes
arrayIncludes(a, x) == \E i \in 1..Len(a) : a[i] = x

\* Array.prototype.slice(0, n)
slice(a, n) == SubSeq(a, 1, IF Len(a) < n THEN Len(a) ELSE n)

\* Array.prototype.join(', ')
RECURSIVE joinComma(_, _)
joinComma(a, i) ==
    IF i > Len(a) THEN ""
    ELSE IF i = Len(a) THEN a[i]
    ELSE a[i] \o ", " \o joinComma(a, i + 1)

---------------------------------------------------------------------------
(* Keywords.  Weights and scores are counted in tenths: 8 is 0.8.          *)

\* { keyword, weight, category } with the sources and the final score that
\* mergeKeywords and rankKeywords add; NoScore and no sources where the
\* property is absent; isString: the keyword property holds a string;
\* isObject: the element is an object and no plain string
NoScore == -1

Keyword(k, w, c) ==
    [keyword |-> k, isString |-> TRUE, isObject |-> TRUE, weight |-> w,
     category |-> c, sources |-> << >>, frequency |-> NoScore,
     finalScore |-> NoScore]

\* a job keyword given as a plain string: it has no properties
PlainKeyword(k) == [Keyword(k, 0, "") EXCEPT !.isObject = FALSE]

\* techPatterns of basicKeywordExtraction, category by category
techPatterns ==
    << << "javascript", "python", "java", "c++", "c#", "php", "ruby", "go",
          "rust", "swift", "kotlin", "typescript" >>,
       << "react", "angular", "vue", "express", "django", "flask", "spring",
          "laravel", "rails" >>,
       << "mysql", "postgresql", "mongodb", "redis", "elasticsearch",
          "oracle", "sqlite" >>,
       << "aws", "azure", "gcp", "docker", "kubernetes", "terraform",
          "jenkins" >>,
       << "git", "jira", "confluence", "slack", "figma", "photoshop",
          "excel" >> >>

softSkills ==
    << "leadership", "communication", "teamwork", "problem-solving",
       "analytical", "creative", "organized", "detail-oriented",
       "collaborative", "innovative", "strategic", "adaptable" >>

actionVerbs ==
    << "developed", "implemented", "designed", "managed", "led", "created",
       "optimized", "improved", "analyzed", "coordinated" >>

\* the keywords of a list of terms, each with the weight and category given
RECURSIVE keywordsOf(_, _, _, _)
keywordsOf(terms, w, c, i) ==
    IF i > Len(terms) THEN << >>
    ELSE << Keyword(terms[i], w, c) >> \o keywordsOf(terms, w, c, i + 1)

\* Array.prototype.filter: the elements that the predicate holds for,
\* in the array's order
RECURSIVE filter(_, _, _)
filter(a, P(_), i) ==
    IF i > Len(a) THEN << >>
    ELSE (IF P(a[i]) THEN << a[i] >> ELSE << >>) \o filter(a, P, i + 1)

\* KeywordService.deduplicateKeywords: the first keyword of each lower-case
\* spelling is kept
RECURSIVE deduplicateKeywords(_, _, _)
deduplicateKeywords(kws, i, seen) ==
    IF i > Len(kws) THEN << >>
    ELSE \* (the Only wrapper binds the key once)
         Only({ IF key \in seen
                THEN deduplicateKeywords(kws, i + 1, seen)
                ELSE Only({ << kws[i] >> \o deduplicateKeywords(kws, i + 1, s2) :
                            s2 \in { seen \cup { key } } }) :
                key \in { lowerCase(kws[i].keyword) } })

RECURSIVE techKeywords(_, _)
techKeywords(cleanText, c) ==
    IF c > Len(techPatterns) THEN << >>
    ELSE keywordsOf(matchAlternatives(cleanText, techPatterns[c]),
                    8, "technical", 1)
           \o techKeywords(cleanText, c + 1)

\* KeywordService.basicKeywordExtraction
basicKeywordExtraction(text) ==
    Only({ deduplicateKeywords(
             techKeywords(cleanText, 1)
               \o keywordsOf(filter(softSkills,
                                        LAMBDA t : includes(cleanText, t), 1),
                             6, "soft", 1)
               \o keywordsOf(filter(actionVerbs,
                                        LAMBDA t : includes(cleanText, t), 1),
                             5, "action", 1),
             1, {}) :
           cleanText \in { lowerCase(text) } })

commonTechTerms ==
    << "javascript", "python", "java", "react", "node", "angular", "vue",
       "typescript", "html", "css", "sql", "mongodb", "postgresql", "mysql",
       "aws", "azure", "docker", "kubernetes", "git", "linux", "windows",
       "api", "rest", "graphql", "microservices", "agile", "scrum" >>

generalTerms ==
    << "experience", "management", "development", "design", "analysis" >>

\* ClaudeService.fallbackKeywordExtraction
fallbackKeywordExtraction(text) ==
    Only({ slice(keywordsOf(filter(commonTechTerms,
                                       LAMBDA t : arrayIncludes(w, t), 1),
                            8, "technical", 1)
                   \o keywordsOf(filter(generalTerms,
                                            LAMBDA t : arrayIncludes(w, t), 1),
                                 6, "general", 1),
                 10) :
           w \in { words(lowerCase(text)) } })

---------------------------------------------------------------------------
(* What the API answers with: a text that JSON.parse refuses, or the JSON  *)
(* text of an object or of an array.  An element of the array is an        *)
(* object (keyword "" and weight 0 where the property is absent or         *)
(* falsy), a string, a number or null.                                     *)

JsonArray(items) == [json |-> "array", items |-> items, text |-> ""]
JsonObject       == [json |-> "object", items |-> << >>, text |-> ""]

KwObject(k, w, c) == [t |-> "object", keyword |-> k, weight |-> w,
                      category |-> c]
KwString(k)       == [t |-> "string", keyword |-> k, weight |-> 0,
                      category |-> ""]
KwNumber          == [t |-> "number", keyword |-> "", weight |-> 0,
                      category |-> ""]
KwNull            == [t |-> "null", keyword |-> "", weight |-> 0,
                      category |-> ""]

\* keywords.map(k => ({ keyword: k.keyword || k, weight: k.weight || 1.0,
\* category: k.category || 'general' })): the keyword is a string when the
\* element has one or is a string itself
RECURSIVE mapKeywords(_, _)
mapKeywords(items, i) ==
    IF i > Len(items) THEN << >>
    ELSE << [ Keyword(items[i].keyword,
                      IF items[i].weight = 0 THEN 10 ELSE items[i].weight,
                      IF items[i].category = "" THEN "general"
                      ELSE items[i].category)
              EXCEPT !.isString = items[i].t = "string"
                                    \/ (items[i].t = "object"
                                          /\ items[i].keyword # "") ] >>
           \o mapKeywords(items, i + 1)

\* ClaudeService.extractKeywords from the end of `await this.makeRequest`:
\* the mapped array, or the fallback when makeRequest threw, JSON.parse
\* threw, the value is no array or an element is null
extractKeywords(jobDescription, threw, response) ==
    IF \/ threw
       \/ response.json # "array"
       \/ \E i \in 1..Len(response.items) : response.items[i].t = "null"
    THEN fallbackKeywordExtraction(jobDescription)
    ELSE mapKeywords(response.items, 1)

\* position of the entry with the key in a list of keywords, 0 when none
indexOfKey(kws, key) ==
    IF \E i \in 1..Len(kws) : lowerCase(kws[i].keyword) = key
    THEN CHOOSE i \in 1..Len(kws) : lowerCase(kws[i].keyword) = key
    ELSE 0

\* the first loop of mergeKeywords: keywordMap.set(key, {...ck, sources:
\* ['claude']}); a key set again keeps its place in the Map
RECURSIVE setClaude(_, _, _)
setClaude(claudeKeywords, i, map) ==
    IF i > Len(claudeKeywords) THEN map
    ELSE Only({ Only({ setClaude(claudeKeywords, i + 1, m2) :
                       m2 \in { IF at = 0 THEN Append(map, e)
                                ELSE [map EXCEPT ![at] = e] } }) :
                at \in { indexOfKey(map, lowerCase(claudeKeywords[i].keyword)) },
                e \in { [claudeKeywords[i] EXCEPT !.sources = << "claude" >>] } })

\* the second loop: a basic keyword is pushed to the sources of the entry
\* of its key or is set with sources ['basic']
RECURSIVE addBasic(_, _, _)
addBasic(basicKeywords, i, map) ==
    IF i > Len(basicKeywords) THEN map
    ELSE Only({ Only({ addBasic(basicKeywords, i + 1, m2) :
                       m2 \in { IF at = 0
                                THEN Append(map, [basicKeywords[i] EXCEPT
                                                    !.sources = << "basic" >>])
                                ELSE [map EXCEPT
                                        ![at].sources = Append(@, "basic")] } }) :
                at \in { indexOfKey(map, lowerCase(basicKeywords[i].keyword)) } })

\* ck.keyword.toLowerCase() of mergeKeywords raises a TypeError
mergeThrows(claudeKeywords) ==
    \E i \in 1..Len(claudeKeywords) : ~ claudeKeywords[i].isString

\* KeywordService.mergeKeywords
mergeKeywords(claudeKeywords, basicKeywords) ==
    Only({ addBasic(basicKeywords, 1, map) :
           map \in { setClaude(claudeKeywords, 1, << >>) } })

\* new RegExp(`\\b${keyword}\\b`, 'gi') raises a SyntaxError (nothing to
\* repeat): a quantifier stands first or behind '+' or '*'
regExpThrows(keyword) ==
    \E i \in 1..Len(keyword) :
        /\ charAt(keyword, i) \in { "+", "*" }
        /\ (i = 1 \/ charAt(keyword, i - 1) \in { "+", "*" })

\* the number of matches of /\bt\b/g in s from position i on; at holds the
\* positions where t matches, and the scan goes on behind a match (one
\* position on behind an empty one)
RECURSIVE countMatches(_, _, _)
countMatches(t, at, i) ==
    Only({ IF rest = {} THEN 0
           ELSE 1 + countMatches(t, rest,
                                 Min(rest) + (IF Len(t) = 0 THEN 1 ELSE Len(t))) :
           rest \in { { j \in at : j >= i } } })

\* KeywordService.calculateFrequency, for a keyword that is a literal
\* pattern (no quantifier, class, group or '.')
calculateFrequency(keyword, text) ==
    Only({ countMatches(p[2],
                        { j \in 1..(Len(p[1]) + 1) : MatchesAt(p[1], p[2], j) },
                        1) :
           p \in { << lowerCase(text), lowerCase(keyword) >> } })

\* KeywordService.calculateFinalScore
calculateFinalScore(keyword, text) ==
    (IF keyword.weight = 0 THEN 10 ELSE keyword.weight)
      + calculateFrequency(keyword.keyword, text)
      + (IF arrayIncludes(keyword.sources, "claude") THEN 2 ELSE 0)

\* KeywordService.rankKeywords
rankKeywords(keywords, originalText) ==
    Only({ slice(sortDescending(scored, LAMBDA k : k.finalScore, 1, << >>),
                 20) :
           scored \in
             { [i \in 1..Len(keywords) |->
                  [keywords[i] EXCEPT
                     !.frequency = calculateFrequency(keywords[i].keyword,
                                                      originalText),
                     !.finalScore = calculateFinalScore(keywords[i],
                                                        originalText)]] } })

rankThrows(keywords) ==
    \E i \in 1..Len(keywords) : regExpThrows(keywords[i].keyword)

\* categories[category].push raises a TypeError where the category names a
\* member that every object inherits
InheritedMembers == { "constructor", "__proto__", "toString", "valueOf",
                      "hasOwnProperty" }

categorizeThrows(keywords) ==
    \E i \in 1..Len(keywords) : keywords[i].category \in InheritedMembers

\* KeywordService.extractJobKeywords from the end of `await
\* claudeService.extractKeywords`: keywords and method of the result
extractJobKeywords(jobDescriptionText, claudeKeywords) ==
    Only({ IF mergeThrows(claudeKeywords)
           THEN [keywords |-> basicKeywords, method |-> "basic_fallback"]
           ELSE Only({ IF rankThrows(merged) \/ categorizeThrows(merged)
                       THEN [keywords |-> basicKeywords,
                             method |-> "basic_fallback"]
                       ELSE [keywords |-> rankKeywords(merged,
                                                       jobDescriptionText),
                             method |-> "claude_enhanced"] :
                       merged \in { mergeKeywords(claudeKeywords,
                                                  basicKeywords) } }) :
           basicKeywords \in { basicKeywordExtraction(jobDescriptionText) } })

---------------------------------------------------------------------------
(* KeywordService.extractJobKeywords as a process (specification           *)
(* KeywordSpec)                                                            *)

\* a text that names 21 terms of techPatterns
manyTerms ==
    "javascript python java php ruby go rust swift kotlin typescript react "
      \o "angular vue express django flask spring laravel rails mysql redis"

JobTexts == { "", "React experience, React and leadership", manyTerms }

\* what the API answers a keyword prompt with
KeywordContents ==
    { PlainText("Here are the keywords"),
      JsonObject,
      JsonArray(<< >>),
      JsonArray(<< KwObject("React", 9, "technical"),
                   KwObject("leadership", 7, "soft"),
                   KwObject("Docker", 0, "") >>),
      JsonArray(<< KwString("React"), KwString("agile") >>),
      JsonArray(<< KwObject("C++", 9, "technical") >>),
      JsonArray(<< KwObject("React", 9, "constructor") >>),
      JsonArray(<< KwObject("", 9, "technical") >>),
      JsonArray(<< KwNumber >>),
      JsonArray(<< KwNull >>) }

\* the failures of the API that the tailoring specifications draw from
TailorFailures == { EmptyResponse, StatusError(400), StatusError(429),
                    StatusError(500) }

KeywordOutcomes == TailorFailures \cup { Content(c) : c \in KeywordContents }

\* extractJobKeywords up to `await claudeService.extractKeywords`, which
\* runs up to its `await this.makeRequest`
KeywordService_extractJobKeywords(text) ==
    /\ stage = "idle"
    /\ op' = "extractJobKeywords"
    /\ jobText' = text
    /\ stage' = "keywords"
    /\ makeRequest("extractKeywords")
    /\ UNCHANGED << profile, keywordAnalysis, jobKeywords, cvAnalysis,
                    sections, loop, tailoredCV >>
    /\ UNCHANGED << renderVars, webVars >>

\* makeRequest has returned or thrown: the rest of extractKeywords and of
\* extractJobKeywords
extractJobKeywords_resume ==
    /\ op = "extractJobKeywords"
    /\ stage = "keywords"
    /\ requestDone
    /\ \E claudeKeywords \in
            { extractKeywords(jobText, reqPc = "thrown", reply) } :
         keywordAnalysis' = extractJobKeywords(jobText, claudeKeywords)
    /\ stage' = "returned"
    /\ UNCHANGED << op, jobText, profile, jobKeywords, cvAnalysis, sections,
                    loop, tailoredCV >>
    /\ UNCHANGED << apiVars, renderVars, webVars >>

InitKeyword ==
    /\ NoRender
    /\ NoTailoring
    /\ NoServices

NextKeyword ==
    \/ \E text \in JobTexts : KeywordService_extractJobKeywords(text)
    \/ \E o \in KeywordOutcomes : messages_create(o)
    \/ sleep_done
    \/ extractJobKeywords_resume

KeywordSpec == InitKeyword /\ [][NextKeyword]_vars

---------------------------------------------------------------------------
(* KeywordService.analyzeCVKeywords (specification AnalyzeSpec)            *)

Profile(n, e, s, p) == [name |-> n, work_experience |-> e, skills |-> s,
                        projects |-> p]
Experience(r, b)    == [role |-> r, bullets |-> b]
Project(n, d, t)    == [name |-> n, description |-> d, technologies |-> t]

commonWords ==
    { "the", "and", "for", "are", "but", "not", "you", "all", "can", "had",
      "her", "was", "one", "our", "out", "day", "get", "has", "him", "his",
      "how", "man", "new", "now", "old", "see", "two", "way", "who", "boy",
      "did", "its", "let", "put", "say", "she", "too", "use", "will", "work" }

\* the elements of a sequence
Range(a) == { a[i] : i \in 1..Len(a) }

\* KeywordService.extractUserKeywords: the Set of lower-case keywords (each
\* becomes a user keyword of weight 1.0)
extractUserKeywords(userProfile) ==
    { lowerCase(sk) : sk \in { x \in Range(userProfile.skills) : x # "" } }
      \cup { lowerCase(e.role) :
               e \in { x \in Range(userProfile.work_experience) : x.role # "" } }
      \cup UNION { UNION { { w \in Range(words(lowerCase(b))) :
                               Len(w) > 3 /\ w \notin commonWords } :
                           b \in Range(e.bullets) } :
                   e \in Range(userProfile.work_experience) }
      \cup UNION { { lowerCase(t) : t \in Range(pr.technologies) } :
                   pr \in Range(userProfile.projects) }

\* KeywordService.calculateMatchStrength, in tenths
calculateMatchStrength(userKeyword, jobKeyword) ==
    IF lowerCase(userKeyword) = lowerCase(jobKeyword.keyword) THEN 10 ELSE 8

\* the weight findKeywordMatches and calculateMatchScore read from a job
\* keyword: typeof jk === 'object' ? jk.weight : 1.0
jobWeight(jk) == IF jk.isObject THEN jk.weight ELSE 10

RECURSIVE matchesOf(_, _, _)
matchesOf(userKeywords, jks, i) ==
    IF i > Len(jks) THEN << >>
    ELSE (IF lowerCase(jks[i].keyword) \in userKeywords
          THEN << [keyword |-> jks[i].keyword,
                   jobWeight |-> jobWeight(jks[i]),
                   userWeight |-> 10,
                   matchStrength |->
                       calculateMatchStrength(lowerCase(jks[i].keyword),
                                              jks[i])] >>
          ELSE << >>)
           \o matchesOf(userKeywords, jks, i + 1)

\* KeywordService.findKeywordMatches
findKeywordMatches(userKeywords, jks) ==
    Only({ sortDescending(found, LAMBDA m : m.matchStrength, 1, << >>) :
           found \in { matchesOf(userKeywords, jks, 1) } })

RECURSIVE Sum(_, _, _)
Sum(a, f(_), i) == IF i > Len(a) THEN 0 ELSE f(a[i]) + Sum(a, f, i + 1)

\* Math.round of 0 / 0
NaN == -1

\* KeywordService.calculateMatchScore: Math.round(matchedWeight /
\* totalJobWeight * 100), the weights in tenths and the products of weight
\* and strength in hundredths
calculateMatchScore(matches, jks) ==
    IF Len(jks) = 0 THEN 0
    ELSE Only({ IF w[1] = 0 THEN NaN
                ELSE (20 * w[2] + w[1]) \div (2 * w[1]) :
                w \in { << Sum(jks, jobWeight, 1),
                           Sum(matches,
                               LAMBDA m : m.jobWeight * m.matchStrength, 1) >> } })

\* the same filter reading a property that no job keyword has
missingThrows_wrongProperty(matches, jks) ==
    matches # << >> /\ jks # << >>

\* the filter of missingKeywords reads jk.keyword.toLowerCase(): a TypeError
\* for a plain string, once `some` has a match to call its callback with
missingThrows(matches, jks) ==
    matches # << >> /\ \E i \in 1..Len(jks) : ~ jks[i].isObject

RECURSIVE missingKeywords(_, _, _)
missingKeywords(matches, jks, i) ==
    IF i > Len(jks) THEN << >>
    ELSE (IF \E n \in 1..Len(matches) :
                lowerCase(matches[n].keyword) = lowerCase(jks[i].keyword)
          THEN << >> ELSE << jks[i] >>)
           \o missingKeywords(matches, jks, i + 1)

\* KeywordService.analyzeCVKeywords: the analysis, or threw where the
\* TypeError is caught, logged and thrown again
analyzeCVKeywords(userProfile, jks) ==
    Only({ IF missingThrows(matches, jks)
           THEN [NoCvAnalysis EXCEPT !.threw = TRUE]
           ELSE [threw |-> FALSE,
                 matchScore |-> calculateMatchScore(matches, jks),
                 matchedKeywords |-> matches,
                 missingKeywords |-> missingKeywords(matches, jks, 1)] :
           matches \in { Only({ findKeywordMatches(uk, jks) :
                                uk \in { extractUserKeywords(userProfile) } }) } })

\* the longest list of job keywords AnalyzeSpec gives to analyzeCVKeywords
MaxJobKeywords == 2

\* job keywords as schemas.keywordAnalysis lets them through: strings, and
\* objects with a weight between 0 and 1
JobKeywordInputs ==
    { PlainKeyword("React"), PlainKeyword("Kotlin"),
      Keyword("react", 10, "technical"), Keyword("Python", 0, "technical"),
      Keyword("kotlin", 0, "general"), Keyword("leadership", 5, "soft"),
      Keyword("docker", 7, "general") }

RECURSIVE Lists(_, _)
Lists(S, n) ==
    IF n = 0 THEN { << >> }
    ELSE Lists(S, n - 1) \cup { Append(l, x) : l \in Lists(S, n - 1), x \in S }

AnalyzeProfiles ==
    { Profile("Ada Lovelace", << >>, << >>, << >>),
      Profile("Ada Lovelace",
              << Experience("Developer",
                            << "Led the React migration and use of Docker" >>) >>,
              << "Python", "Leadership" >>,
              << Project("Shop", "A web shop", << "React", "Redis" >>) >>),
      Profile("Grace Hopper", << >>, << "Go" >>, << >>) }

\* POST /analyze-keywords: analyzeCVKeywords is synchronous
KeywordService_analyzeCVKeywords(userProfile, jks) ==
    /\ stage = "idle"
    /\ op' = "analyzeCVKeywords"
    /\ profile' = userProfile
    /\ jobKeywords' = jks
    /\ \E a \in { analyzeCVKeywords(userProfile, jks) } :
          /\ cvAnalysis' = a
          /\ stage' = IF a.threw THEN "thrown" ELSE "returned"
    /\ UNCHANGED << jobText, keywordAnalysis, sections, loop, tailoredCV >>
    /\ UNCHANGED << apiVars, renderVars, webVars >>

InitAnalyze ==
    /\ NoRender
    /\ NoTailoring
    /\ NoServices

NextAnalyze ==
    \E userProfile \in AnalyzeProfiles :
      \E jks \in Lists(JobKeywordInputs, MaxJobKeywords) :
        KeywordService_analyzeCVKeywords(userProfile, jks)

AnalyzeSpec == InitAnalyze /\ [][NextAnalyze]_vars

---------------------------------------------------------------------------
(* ContentService.generateTailoredContent (specification TailorSpec)       *)

\* String.prototype.trim, for spaces
trim(s) ==
    Only({ IF kept = {} THEN ""
           ELSE SubSeq(s, Min(kept),
                       CHOOSE b \in kept : \A j \in kept : j <= b) :
           kept \in { { i \in 1..Len(s) : charAt(s, i) # " " } } })

\* response.trim().replace(/^["']|["']$/g, '')
unquote(response) ==
    Only({ SubSeq(t,
                  IF Len(t) > 0 /\ charAt(t, 1) \in { "\"", "'" } THEN 2 ELSE 1,
                  IF Len(t) > 1 /\ charAt(t, Len(t)) \in { "\"", "'" }
                  THEN Len(t) - 1 ELSE Len(t)) :
           t \in { trim(response) } })

\* keywords.slice(0, n).map(k => typeof k === 'string' ? k : k.keyword)
keywordNames(keywords, n) ==
    [i \in 1..Len(slice(keywords, n)) |-> keywords[i].keyword]

\* ClaudeService.generateSummary from the end of `await this.makeRequest`
generateSummary(keywords, threw, response) ==
    IF threw
    THEN "Experienced professional with expertise in "
           \o joinComma(keywordNames(keywords, 3), 1)
           \o ". Proven track record of delivering results in dynamic "
           \o "environments. Seeking to leverage skills and experience in "
           \o "a challenging new role."
    ELSE unquote(response.text)

\* name.split(' ')[0]
firstName(name) ==
    IF includes(name, " ")
    THEN SubSeq(name, 1, Min({ i \in 1..Len(name) : charAt(name, i) = " " }) - 1)
    ELSE name

\* ContentService.generateFallbackSummary
generateFallbackSummary(userProfile, keywords) ==
    "Experienced "
      \o firstName(IF userProfile.name = "" THEN "Professional"
                   ELSE userProfile.name)
      \o " with " \o ToString(Len(userProfile.work_experience))
      \o "+ years of professional experience. Skilled in "
      \o joinComma(keywordNames(keywords, 3), 1)
      \o " with a proven track record of delivering results. Seeking to "
      \o "leverage expertise in a challenging new role."

\* a failed rewrite leaves an empty bullet
rewriteBullet_blank(bullet, threw, response) ==
    IF threw THEN "" ELSE unquote(response.text)

\* ClaudeService.rewriteBullet from the end of `await this.makeRequest`
rewriteBullet(bullet, threw, response) ==
    IF threw THEN bullet ELSE unquote(response.text)

\* new Set(keywords.map(k => (typeof k === 'string' ? k : k.keyword)
\* .toLowerCase()))
keywordSet(keywords) == { lowerCase(keywords[i].keyword) : i \in 1..Len(keywords) }

\* how many elements of a sequence lie in a set
countIn(a, S) == Cardinality({ i \in 1..Len(a) : a[i] \in S })

\* ContentService.calculateExperienceRelevance
calculateExperienceRelevance(experience, keywords) ==
    Only({ 2 * countIn(splitSpaces(lowerCase(experience.role)), ks)
             + Sum(experience.bullets,
                   LAMBDA b : countIn(words(lowerCase(b)), ks), 1) :
           ks \in { keywordSet(keywords) } })

\* the first 4 experiences as the profile lists them, not sorted by score
topExperiences_unsorted(experiences, keywords) ==
    slice([i \in 1..Len(experiences) |->
             [role |-> experiences[i].role,
              bullets |-> experiences[i].bullets,
              relevanceScore |->
                  calculateExperienceRelevance(experiences[i], keywords)]],
          4)

\* selectAndEnhanceExperience up to its loop: the experiences with their
\* scores, sorted, the first 4
topExperiences(experiences, keywords) ==
    Only({ slice(sortDescending(scored, LAMBDA x : x.relevanceScore, 1, << >>),
                 4) :
           scored \in
             { [i \in 1..Len(experiences) |->
                  [role |-> experiences[i].role,
                   bullets |-> experiences[i].bullets,
                   relevanceScore |->
                       calculateExperienceRelevance(experiences[i],
                                                    keywords)]] } })

\* experience.bullets.slice(0, 4) of enhanceExperienceBullets
selectedBullets(experience) == slice(experience.bullets, 4)

\* the loop of selectAndEnhanceExperience from experience e on, up to the
\* first experience that has a bullet to rewrite: the experiences without
\* bullets are pushed as they are
RECURSIVE enhanceFrom(_, _, _)
enhanceFrom(top, e, enhanced) ==
    IF e > Len(top) \/ top[e].bullets # << >>
    THEN [e |-> e, enhanced |-> enhanced]
    ELSE Only({ enhanceFrom(top, e + 1, e2) :
                e2 \in { Append(enhanced, top[e]) } })

\* an element of a skills array: a string, or a value that is none
Skill(n) == KwString(n)

\* ClaudeService.generateSkillsList from the end of `await this.makeRequest`
generateSkillsList(keywords, threw, response) ==
    IF threw \/ response.json = "invalid"
    THEN Only({ [i \in 1..Len(k) |-> Skill(k[i].keyword)] :
                k \in { slice(filter(keywords, LAMBDA k : jobWeight(k) > 5, 1),
                              12) } })
    ELSE IF response.json = "array"
         THEN [i \in 1..Len(response.items) |->
                 IF response.items[i].t = "string"
                 THEN Skill(response.items[i].keyword) ELSE KwNumber]
         ELSE << >>

\* the lower-case spelling of a skill, "" for an element that has no
\* toLowerCase
skillKey(skill) == IF skill.t = "string" THEN lowerCase(skill.keyword) ELSE ""

\* the callback of prioritizedSkills.some raises a TypeError: it is called
\* with an element, or for a skill, that has no toLowerCase, before an
\* element equal to the skill ends the search; keys holds the lower-case
\* spellings of prioritizedSkills and key that of the skill
someThrows(prioritizedSkills, keys, skill, key) ==
    \E i \in 1..Len(prioritizedSkills) :
        /\ prioritizedSkills[i].t # "string" \/ skill.t # "string"
        /\ \A j \in 1..(i - 1) : keys[j] # key

\* skills.forEach(skill => { if (!prioritizedSkills.some(ps =>
\* ps.toLowerCase() === skill.toLowerCase())) prioritizedSkills.push(skill)
\* }): the list, or threw
RECURSIVE pushMissing(_, _, _, _)
pushMissing(skills, i, prioritizedSkills, keys) ==
    IF i > Len(skills)
    THEN [threw |-> FALSE, skills |-> prioritizedSkills, keys |-> keys]
    ELSE Only({ IF someThrows(prioritizedSkills, keys, skills[i], key)
                THEN [threw |-> TRUE, skills |-> << >>, keys |-> << >>]
                ELSE IF \E j \in 1..Len(keys) : keys[j] = key
                     THEN pushMissing(skills, i + 1, prioritizedSkills, keys)
                     ELSE Only({ pushMissing(skills, i + 1, p2[1], p2[2]) :
                                 p2 \in { << Append(prioritizedSkills,
                                                    skills[i]),
                                             Append(keys, key) >> } }) :
                key \in { skillKey(skills[i]) } })

\* ContentService.generateTailoredSkills from the end of `await
\* claudeService.generateSkillsList`; userSkills are the names
generateTailoredSkills(userSkills, jks, claudeSkills) ==
    Only({ Only({ IF withClaude.threw
                  THEN slice(names, 12)
                  ELSE Only({ IF withRest.threw THEN slice(names, 12)
                              ELSE slice(withRest.skills, 15) :
                              withRest \in { pushMissing(names, 1,
                                                         withClaude.skills,
                                                         withClaude.keys) } }) :
                  withClaude \in
                    { Only({ pushMissing(claudeSkills, 1, first,
                                         [i \in 1..Len(first) |->
                                            skillKey(first[i])]) :
                             first \in { Only({ filter(names,
                                                  LAMBDA n : skillKey(n) \in ks,
                                                  1) :
                                                ks \in { keywordSet(jks) } }) } }) } }) :
           names \in { [i \in 1..Len(userSkills) |-> Skill(userSkills[i])] } })

\* the score selectRelevantProjects gives a project
projectRelevance(project, ks) ==
    2 * countIn(splitSpaces(lowerCase(project.name)), ks)
      + countIn(words(lowerCase(project.description)), ks)
      + 3 * countIn([i \in 1..Len(project.technologies) |->
                        lowerCase(project.technologies[i])], ks)

\* projects.map(project => ({ ...project, relevanceScore: score }))
scoredProjects(projects, keywords) ==
    Only({ [i \in 1..Len(projects) |->
              [project |-> projects[i],
               relevanceScore |-> projectRelevance(projects[i], ks)]] :
           ks \in { keywordSet(keywords) } })

\* selectRelevantProjects without its slice(0, 3)
selectRelevantProjects_all(projects, keywords) ==
    Only({ [i \in 1..Len(sorted) |-> sorted[i].project] :
           sorted \in { Only({ sortDescending(scored,
                                              LAMBDA x : x.relevanceScore,
                                              1, << >>) :
                               scored \in { scoredProjects(projects,
                                                           keywords) } }) } })

\* ContentService.selectRelevantProjects
selectRelevantProjects(projects, keywords) ==
    Only({ [i \in 1..Len(sorted) |-> sorted[i].project] :
           sorted \in { Only({ slice(sortDescending(scored,
                                                    LAMBDA x : x.relevanceScore,
                                                    1, << >>),
                                     3) :
                               scored \in { scoredProjects(projects,
                                                           keywords) } }) } })

\* new TailoredCV({...tailoredContent, matchedKeywords, relevanceScore}):
\* data.relevanceScore || 0
TailoredCV(content, analysis) ==
    [summary |-> content.summary,
     experience |-> content.experience,
     skills |-> content.skills,
     projects |-> content.projects,
     matchedKeywords |-> [i \in 1..Len(analysis.matchedKeywords) |->
                            analysis.matchedKeywords[i].keyword],
     relevanceScore |-> IF analysis.matchScore = NaN THEN 0
                        ELSE analysis.matchScore]

\* generateTailoredContent up to `await keywordService.extractJobKeywords`,
\* which runs up to the makeRequest of claudeService.extractKeywords
ContentService_generateTailoredContent(userProfile, text) ==
    /\ stage = "idle"
    /\ op' = "generateTailoredContent"
    /\ profile' = userProfile
    /\ jobText' = text
    /\ stage' = "keywords"
    /\ makeRequest("extractKeywords")
    /\ UNCHANGED << keywordAnalysis, jobKeywords, cvAnalysis, sections, loop,
                    tailoredCV >>
    /\ UNCHANGED << renderVars, webVars >>

\* selectAndEnhanceExperience goes on with experience e: it awaits the
\* rewrite of that experience's first bullet or, behind the last
\* experience, createTailoredSections goes on to generateTailoredSkills,
\* which awaits claudeService.generateSkillsList
enhanceNext(top, e, summary, enhanced) ==
    \E nxt \in { enhanceFrom(top, e, enhanced) } :
        /\ sections' = [sections EXCEPT !.summary = summary,
                                        !.experience = nxt.enhanced]
        /\ loop' = [experiences |-> top, e |-> nxt.e, bullets |-> << >>]
        /\ IF nxt.e <= Len(top)
           THEN stage' = "bullet" /\ makeRequest("rewriteBullet")
           ELSE stage' = "skills" /\ makeRequest("generateSkillsList")

\* extractJobKeywords has returned: topKeywords, analyzeCVKeywords (whose
\* exception generateTailoredContent logs and throws again), then
\* createTailoredSections up to the makeRequest of generateSummary
generateTailoredContent_keywords ==
    /\ op = "generateTailoredContent"
    /\ stage = "keywords"
    /\ requestDone
    /\ \E claudeKeywords \in
            { extractKeywords(jobText, reqPc = "thrown", reply) } :
       \E ka \in { extractJobKeywords(jobText, claudeKeywords) } :
       \E topKeywords \in { slice(ka.keywords, 10) } :
         /\ keywordAnalysis' = ka
         /\ jobKeywords' = topKeywords
         /\ \E a \in { analyzeCVKeywords(profile, topKeywords) } :
              /\ cvAnalysis' = a
              /\ IF a.threw
                 THEN stage' = "thrown" /\ UNCHANGED apiVars
                 ELSE stage' = "summary" /\ makeRequest("generateSummary")
    /\ UNCHANGED << op, jobText, profile, sections, loop, tailoredCV >>
    /\ UNCHANGED << renderVars, webVars >>

\* generateSummary has returned its text or its own fallback, which
\* generateTailoredSummary returns; selectAndEnhanceExperience starts
generateSummary_resume ==
    /\ op = "generateTailoredContent"
    /\ stage = "summary"
    /\ requestDone
    /\ \E top \in { topExperiences(profile.work_experience, jobKeywords) } :
       \E summary \in { generateSummary(jobKeywords, reqPc = "thrown", reply) } :
         enhanceNext(top, 1, summary, << >>)
    /\ UNCHANGED << op, jobText, profile, keywordAnalysis, jobKeywords,
                    cvAnalysis, tailoredCV >>
    /\ UNCHANGED << renderVars, webVars >>

\* rewriteBullet has returned the rewritten or the original bullet: the
\* next bullet of the experience, or the experience is pushed and the loop
\* goes on
rewriteBullet_resume ==
    /\ op = "generateTailoredContent"
    /\ stage = "bullet"
    /\ requestDone
    /\ \E experience \in { loop.experiences[loop.e] } :
       \E bullets \in
            { Append(loop.bullets,
                     rewriteBullet(
                       selectedBullets(experience)[Len(loop.bullets) + 1],
                       reqPc = "thrown", reply)) } :
         IF Len(bullets) < Len(selectedBullets(experience))
         THEN /\ loop' = [loop EXCEPT !.bullets = bullets]
              /\ makeRequest("rewriteBullet")
              /\ UNCHANGED << stage, sections >>
         ELSE \E enhanced \in
                   { Append(sections.experience,
                            [experience EXCEPT !.bullets = bullets]) } :
                enhanceNext(loop.experiences, loop.e + 1, sections.summary,
                            enhanced)
    /\ UNCHANGED << op, jobText, profile, keywordAnalysis, jobKeywords,
                    cvAnalysis, tailoredCV >>
    /\ UNCHANGED << renderVars, webVars >>

\* generateSkillsList has returned: the rest of generateTailoredSkills, the
\* projects, and generateTailoredContent builds and returns the TailoredCV
generateSkillsList_resume ==
    /\ op = "generateTailoredContent"
    /\ stage = "skills"
    /\ requestDone
    /\ \E claudeSkills \in
            { generateSkillsList(jobKeywords, reqPc = "thrown", reply) } :
       \E content \in
            { [sections EXCEPT
                 !.skills = generateTailoredSkills(profile.skills, jobKeywords,
                                                   claudeSkills),
                 !.projects = selectRelevantProjects(profile.projects,
                                                     jobKeywords)] } :
         /\ sections' = content
         /\ tailoredCV' = TailoredCV(content, cvAnalysis)
    /\ stage' = "returned"
    /\ UNCHANGED << op, jobText, profile, keywordAnalysis, jobKeywords,
                    cvAnalysis, loop >>
    /\ UNCHANGED << apiVars, renderVars, webVars >>

\* a job description of the 50 characters the schema asks for
jobAd == "We need a React developer with Docker experience and leadership."

TailorTexts == { jobAd }

bulletLed == "Led the React migration"

\* a profile with more experiences, bullets, skills and projects than the
\* tailored CV takes, and a short one
longProfile ==
    Profile("Ada Lovelace",
            << Experience("Engineer", << >>),
               Experience("React Developer",
                          << bulletLed, "Built Docker images", "Wrote tests",
                             "Mentored juniors", "Ran the on-call rota" >>),
               Experience("Analyst", << >>),
               Experience("Intern", << >>),
               Experience("Docker Consultant", << >>) >>,
            << "Python", "React", "SQL", "Go", "Rust", "Java", "Kotlin",
               "Swift", "Ruby", "PHP", "Perl", "Scala", "Elixir", "Haskell",
               "Erlang", "Clojure", "Lua" >>,
            << Project("Shop", "A web shop", << "React", "Redis" >>),
               Project("Fleet", "Docker fleet manager", << "Go" >>),
               Project("Blog", "A static blog", << >>),
               Project("Leadership course", "Slides", << >>) >>)

shortProfile ==
    Profile("Grace Hopper",
            << Experience("Developer", << bulletLed >>) >>,
            << "Go" >>,
            << >>)

TailorProfiles == { longProfile, shortProfile, Profile("Alan Turing", << >>,
                                                      << >>, << >>) }

\* what the API answers the prompt of each method with: the text or JSON
\* that was asked for, or something else
TailorContents(c) ==
    CASE c = "extractKeywords" ->
           { PlainText("Here are the keywords"),
             JsonArray(<< KwObject("React", 9, "technical"),
                          KwObject("Kubernetes", 8, "technical"),
                          KwString("Docker") >>) }
      [] c = "generateSummary" ->
           { PlainText("\"Seasoned React developer.\"") }
      [] c = "rewriteBullet" ->
           { PlainText(" Led the migration to React and Docker ") }
      [] c = "generateSkillsList" ->
           { PlainText("Skills: React"),
             JsonObject,
             JsonArray(<< KwString("React"), KwString("Kubernetes"),
                          KwString("Docker") >>),
             JsonArray(<< KwString("Docker"), KwNumber >>) }
      [] OTHER -> { }

TailorOutcomes ==
    TailorFailures \cup { Content(c) : c \in TailorContents(caller) }

InitTailor ==
    /\ NoRender
    /\ NoTailoring
    /\ NoServices

NextTailor ==
    \/ \E userProfile \in TailorProfiles :
         \E text \in TailorTexts :
           ContentService_generateTailoredContent(userProfile, text)
    \/ \E o \in TailorOutcomes : messages_create(o)
    \/ sleep_done
    \/ generateTailoredContent_keywords
    \/ generateSummary_resume
    \/ rewriteBullet_resume
    \/ generateSkillsList_resume

TailorSpec == InitTailor /\ [][NextTailor]_vars

\* generateTailoredContent is suspended at an await whose request has settled
awaitSettled ==
    /\ op = "generateTailoredContent"
    /\ stage \in { "keywords", "summary", "bullet", "skills" }
    /\ requestDone

\* The async function runs on after a settled await: every one of
\* generateTailoredContent_keywords, generateSummary_resume,
\* rewriteBullet_resume and generateSkillsList_resume either starts the next
\* request or ends the call, so it changes << reqPc, stage >>, and no other
\* step is possible while awaitSettled holds.
resumed ==
    /\ awaitSettled
    /\ reqPc' \in { "calling", "returned", "thrown" }
    /\ stage' \in { "summary", "bullet", "skills", "returned", "thrown" }

\* The API answers every request, a timer fires, and the event loop runs the
\* continuation of a settled await.
FairTailorSpec ==
    /\ TailorSpec
    /\ WF_vars(\E o \in TailorOutcomes : messages_create(o))
    /\ WF_vars(sleep_done)
    /\ WF_<< reqPc, stage >>(resumed)

---------------------------------------------------------------------------
(* ContentService.optimizeContent                                          *)

\* a CV content: `has` names the sections that are present in the object
CvContent(has, summary, experience, skills, projects) ==
    [has |-> has, summary |-> summary, experience |-> experience,
     skills |-> skills, projects |-> projects]

\* the content as analyzeCVKeywords reads it: extractUserKeywords looks at
\* skills, work_experience and projects, and a content keeps its experiences
\* under `experience`
contentProfile(content) ==
    Profile("", << >>,
            IF "skills" \in content.has THEN content.skills ELSE << >>,
            content.projects)

\* the forEach of optimizeSkillsSection from the i-th job keyword on
RECURSIVE addMissingSkills(_, _, _, _)
addMissingSkills(jks, i, optimizedSkills, skillSet) ==
    IF i > Len(jks) THEN optimizedSkills
    ELSE IF jobWeight(jks[i]) > 7 /\ lowerCase(jks[i].keyword) \notin skillSet
         THEN Only({ addMissingSkills(jks, i + 1, a[1], a[2]) :
                     a \in { << Append(optimizedSkills, jks[i].keyword),
                                skillSet \cup { lowerCase(jks[i].keyword) } >> } })
         ELSE addMissingSkills(jks, i + 1, optimizedSkills, skillSet)

\* ContentService.optimizeSkillsSection
optimizeSkillsSection(currentSkills, jks) ==
    Only({ slice(addMissingSkills(jks, 1, currentSkills, skillSet), 15) :
           skillSet \in { { lowerCase(currentSkills[i]) :
                              i \in 1..Len(currentSkills) } } })

\* optimizeExperienceSection from experience e on: experiences without
\* bullets are pushed as they are, up to the first one with a bullet
RECURSIVE optimizeFrom(_, _, _)
optimizeFrom(experiences, e, optimized) ==
    IF e > Len(experiences) \/ experiences[e].bullets # << >>
    THEN [e |-> e, optimized |-> optimized]
    ELSE Only({ optimizeFrom(experiences, e + 1, o2) :
                o2 \in { Append(optimized, experiences[e]) } })

\* one entry of `submitted`
Submission(c, text) == [caller |-> c, text |-> text]

\* newAnalysis.matchScore - currentAnalysis.matchScore; a NaN operand gives
\* NaN, written NaN - 100, below every difference of two scores
improvementOf(newScore, oldScore) ==
    IF newScore = NaN \/ oldScore = NaN THEN NaN - 100
    ELSE newScore - oldScore

\* the end of optimizeContent: the optimized content is analysed again and
\* the result is returned, or the TypeError of analyzeCVKeywords is thrown
reanalyze(optimizedContent) ==
    \E newAnalysis \in { analyzeCVKeywords(contentProfile(optimizedContent),
                                           jobKeywords) } :
        /\ sections' = optimizedContent
        /\ IF newAnalysis.threw
           THEN stage' = "thrown" /\ UNCHANGED result
           ELSE /\ stage' = "returned"
                /\ result' = [optimized |-> TRUE,
                              content |-> optimizedContent,
                              analysis |-> newAnalysis,
                              improvement |->
                                  improvementOf(newAnalysis.matchScore,
                                                cvAnalysis.matchScore)]

\* optimizeContent after its experience section: the skills are optimized
\* and the summary, when there is one, is submitted
optimizeSkillsAndSummary(content, jks, currentAnalysis) ==
    \E optimizedContent \in
         { IF "skills" \in content.has
           THEN [content EXCEPT
                   !.skills = optimizeSkillsSection(content.skills, jks)]
           ELSE content } :
        IF optimizedContent.summary # ""
        THEN /\ sections' = optimizedContent
             /\ stage' = "summary"
             /\ makeRequest("optimizeSummary")
             /\ submitted' = Append(submitted,
                                    Submission("optimizeSummary",
                                               optimizedContent.summary))
             /\ UNCHANGED result
        ELSE /\ \E newAnalysis \in
                     { analyzeCVKeywords(contentProfile(optimizedContent),
                                         jks) } :
                  /\ sections' = optimizedContent
                  /\ IF newAnalysis.threw
                     THEN stage' = "thrown" /\ UNCHANGED result
                     ELSE /\ stage' = "returned"
                          /\ result' = [optimized |-> TRUE,
                                        content |-> optimizedContent,
                                        analysis |-> newAnalysis,
                                        improvement |->
                                            improvementOf(
                                              newAnalysis.matchScore,
                                              currentAnalysis.matchScore)]
             /\ UNCHANGED << apiVars, submitted >>

\* optimizeExperienceSection goes on with experience e: its first bullet is
\* submitted, or the section is complete
optimizeExperienceNext(content, experiences, e, optimized, jks, currentAnalysis) ==
    \E nxt \in { optimizeFrom(experiences, e, optimized) } :
        IF nxt.e <= Len(experiences)
        THEN /\ sections' = [content EXCEPT !.experience = nxt.optimized]
             /\ loop' = [experiences |-> experiences, e |-> nxt.e,
                         bullets |-> << >>]
             /\ stage' = "bullet"
             /\ makeRequest("rewriteBullet")
             /\ submitted' = Append(submitted,
                   Submission("rewriteBullet",
                              experiences[nxt.e].bullets[1]))
             /\ UNCHANGED result
        ELSE /\ loop' = [experiences |-> experiences, e |-> nxt.e,
                         bullets |-> << >>]
             /\ optimizeSkillsAndSummary(
                    [content EXCEPT !.experience = nxt.optimized], jks,
                    currentAnalysis)

\* ContentService.optimizeContent up to its first await, or to its end when
\* nothing is awaited
ContentService_optimizeContent(content, jks, target) ==
    /\ stage = "idle"
    /\ op' = "optimizeContent"
    /\ cvContent' = content
    /\ jobKeywords' = jks
    /\ targetScore' = target
    /\ \E currentAnalysis \in
            { analyzeCVKeywords(contentProfile(content), jks) } :
         /\ cvAnalysis' = currentAnalysis
         /\ IF currentAnalysis.threw
            THEN /\ stage' = "thrown"
                 /\ UNCHANGED << apiVars, sections, loop, result, submitted >>
            ELSE IF currentAnalysis.matchScore >= target
                 THEN /\ stage' = "returned"
                      /\ result' = [optimized |-> FALSE, content |-> content,
                                    analysis |-> currentAnalysis,
                                    improvement |-> 0]
                      /\ UNCHANGED << apiVars, sections, loop, submitted >>
                 ELSE IF "experience" \in content.has
                      THEN optimizeExperienceNext(content,
                                                  content.experience, 1,
                                                  << >>, jks,
                                                  currentAnalysis)
                      ELSE /\ optimizeSkillsAndSummary(content, jks,
                                                       currentAnalysis)
                           /\ UNCHANGED loop
    /\ UNCHANGED << jobText, profile, keywordAnalysis, tailoredCV >>
    /\ UNCHANGED << batchVars, rateVars, authVars, now >>
    /\ UNCHANGED renderVars

\* optimizeExperienceSection resumes from `await claudeService.rewriteBullet`
optimizeExperienceSection_resume ==
    /\ op = "optimizeContent"
    /\ stage = "bullet"
    /\ requestDone
    /\ \E exp \in { loop.experiences[loop.e] } :
       \E optimizedBullets \in
            { Append(loop.bullets,
                     rewriteBullet(exp.bullets[Len(loop.bullets) + 1],
                                   reqPc = "thrown", reply)) } :
         IF Len(optimizedBullets) < Len(exp.bullets)
         THEN /\ loop' = [loop EXCEPT !.bullets = optimizedBullets]
              /\ makeRequest("rewriteBullet")
              /\ submitted' = Append(submitted,
                    Submission("rewriteBullet",
                               exp.bullets[Len(optimizedBullets) + 1]))
              /\ UNCHANGED << stage, sections, result >>
         ELSE optimizeExperienceNext(
                  sections, loop.experiences, loop.e + 1,
                  Append(sections.experience,
                         [exp EXCEPT !.bullets = optimizedBullets]),
                  jobKeywords, cvAnalysis)
    /\ UNCHANGED << op, jobText, profile, keywordAnalysis, jobKeywords,
                    cvAnalysis, tailoredCV, cvContent, targetScore >>
    /\ UNCHANGED << batchVars, rateVars, authVars, now >>
    /\ UNCHANGED renderVars

\* optimizeSummary resumes from `await claudeService.makeRequest`, and
\* optimizeContent from `await this.optimizeSummary`
optimizeSummary_resume ==
    /\ op = "optimizeContent"
    /\ stage = "summary"
    /\ requestDone
    /\ reanalyze([sections EXCEPT
                    !.summary = IF reqPc = "thrown" THEN @
                                ELSE unquote(reply.text)])
    /\ UNCHANGED << op, jobText, profile, keywordAnalysis, jobKeywords,
                    cvAnalysis, loop, tailoredCV, cvContent, targetScore,
                    submitted >>
    /\ UNCHANGED << apiVars, batchVars, rateVars, authVars, now >>
    /\ UNCHANGED renderVars

\* a content of 16 skills, the last of them a job keyword
manySkills ==
    << "Python", "SQL", "Go", "Rust", "Java", "Kotlin", "Swift", "Ruby",
       "PHP", "Perl", "Scala", "Elixir", "Haskell", "Erlang", "Clojure",
       "Docker" >>

OptimizeContents ==
    { CvContent({ "experience", "skills" }, "Developer",
                << Experience("Developer", << bulletLed, "Wrote tests" >>),
                   Experience("Intern", << >>) >>,
                << "Go" >>, << >>),
      CvContent({ "skills" }, "", << >>, manySkills, << >>),
      CvContent({ "experience" }, "Dev",
                << Experience("Dev", << "Wrote tests" >>) >>, << >>,
                << Project("Shop", "A web shop", << "React" >>) >>),
      CvContent({ "skills" }, "", << >>, << "React", "Docker" >>, << >>) }

\* job keywords as POST /optimize-content lets them through (strings), and
\* as objects, which optimizeContent reads as well
OptimizeKeywords ==
    { << >>,
      << PlainKeyword("React"), PlainKeyword("Docker") >>,
      << Keyword("React", 9, "technical"), Keyword("Docker", 8, "technical"),
         Keyword("Leadership", 5, "soft") >> }

\* targetScore: Joi.number().min(0).max(100).default(80)
TargetScores == { 0, 80 }

OptimizeReplies(c) ==
    CASE c = "rewriteBullet" ->
           { PlainText(" Led the migration to React and Docker ") }
      [] c = "optimizeSummary" ->
           { PlainText("\"Seasoned React developer.\"") }
      [] OTHER -> { }

OptimizeOutcomes ==
    TailorFailures \cup { Content(c) : c \in OptimizeReplies(caller) }

InitOptimize ==
    /\ NoRender
    /\ NoTailoring
    /\ NoServices

NextOptimize ==
    \/ \E content \in OptimizeContents :
         \E jks \in OptimizeKeywords :
           \E target \in TargetScores :
             ContentService_optimizeContent(content, jks, target)
    \/ \E o \in OptimizeOutcomes : messages_create(o)
    \/ sleep_done
    \/ optimizeExperienceSection_resume
    \/ optimizeSummary_resume

OptimizeSpec == InitOptimize /\ [][NextOptimize]_vars

---------------------------------------------------------------------------
(* PDFController.generateMultiplePDFs and                                  *)
(* KeywordController.batchExtractKeywords (specification BatchSpec)        *)

\* if (templates.length > 5): 'Maximum 5 templates allowed'
maxTemplates == 5

\* one entry of results (status 'success') or of errors (status 'failed')
UnitEntry(unit, status) == [unit |-> unit, status |-> status]

\* res.json({ success: true, data: { results, errors, summary } })
BatchResponse(total, rs, es) ==
    [status |-> 200, total |-> total, successful |-> Len(rs),
     failed |-> Len(es)]

\* res.status(400).json({ success: false, message }): there is no summary
Refusal == [NoResponse EXCEPT !.status = 400]

\* the handler up to the await of its first unit, or to res.json when there
\* is no unit
startBatch(handler, list) ==
    /\ batchOp = "none"
    /\ batchOp' = handler
    /\ units' = list
    /\ results' = << >>
    /\ batchErrors' = << >>
    /\ IF list = << >>
       THEN unitIdx' = 0 /\ res' = BatchResponse(0, << >>, << >>)
       ELSE unitIdx' = 1 /\ UNCHANGED res

\* the await of unit unitIdx settles: fulfilled, the try block pushes to
\* results; rejected, the catch block pushes to errors; the loop then awaits
\* the next unit, or the handler answers after the last one
unitSettled(handler, fulfilled) ==
    /\ batchOp = handler
    /\ unitIdx > 0
    /\ \E rs \in { IF fulfilled
                   THEN Append(results, UnitEntry(units[unitIdx], "success"))
                   ELSE results } :
       \E es \in { IF fulfilled THEN batchErrors
                   ELSE Append(batchErrors,
                               UnitEntry(units[unitIdx], "failed")) } :
         /\ results' = rs
         /\ batchErrors' = es
         /\ IF unitIdx < Len(units)
            THEN unitIdx' = unitIdx + 1 /\ UNCHANGED res
            ELSE unitIdx' = 0 /\ res' = BatchResponse(Len(units), rs, es)
    /\ UNCHANGED << batchOp, units >>

\* PDFController.generateMultiplePDFs up to its first
\* `await latexService.generatePDF`
PDFController_generateMultiplePDFs(templates) ==
    /\ IF Len(templates) > maxTemplates
       THEN /\ batchOp = "none"
            /\ batchOp' = "generateMultiplePDFs"
            /\ units' = templates
            /\ res' = Refusal
            /\ UNCHANGED << unitIdx, results, batchErrors >>
       ELSE startBatch("generateMultiplePDFs", templates)
    /\ UNCHANGED << optVars, rateVars, authVars, now >>
    /\ UNCHANGED << renderVars, aiVars >>

\* a handler without the try and catch around the unit: the rejection leaves
\* the loop
generatePDF_settled_uncaught(fulfilled) ==
    /\ IF fulfilled
       THEN unitSettled("generateMultiplePDFs", TRUE)
       ELSE /\ batchOp = "generateMultiplePDFs"
            /\ unitIdx > 0
            /\ unitIdx' = 0
            /\ res' = [NoResponse EXCEPT !.status = 500]
            /\ UNCHANGED << batchOp, units, results, batchErrors >>
    /\ UNCHANGED << optVars, rateVars, authVars, now >>
    /\ UNCHANGED << renderVars, aiVars >>

\* generateMultiplePDFs resumes from `await latexService.generatePDF`, which
\* returns the PDF or throws (see outcome of the render job)
generatePDF_settled(fulfilled) ==
    /\ unitSettled("generateMultiplePDFs", fulfilled)
    /\ UNCHANGED << optVars, rateVars, authVars, now >>
    /\ UNCHANGED << renderVars, aiVars >>

\* KeywordController.batchExtractKeywords up to its first
\* `await keywordService.extractJobKeywords`
KeywordController_batchExtractKeywords(jobDescriptions) ==
    /\ startBatch("batchExtractKeywords", jobDescriptions)
    /\ UNCHANGED << optVars, rateVars, authVars, now >>
    /\ UNCHANGED << renderVars, aiVars >>

\* batchExtractKeywords resumes from `await keywordService.extractJobKeywords`;
\* the rejection is the case its catch block is written for (KeywordSpec
\* shows extractJobKeywords falling back instead of throwing)
extractJobKeywords_settled(fulfilled) ==
    /\ unitSettled("batchExtractKeywords", fulfilled)
    /\ UNCHANGED << optVars, rateVars, authVars, now >>
    /\ UNCHANGED << renderVars, aiVars >>

\* req.body.templates: the default, lists with an unknown and a repeated
\* template, no template, and lists of 5 and of 6
TemplateLists ==
    { << "modern", "classic" >>, << >>, << "nope", "modern" >>,
      << "modern", "modern" >>,
      << "modern", "classic", "nope", "modern", "classic" >>,
      << "modern", "classic", "nope", "modern", "classic", "nope" >> }

\* the ids of req.body.jobDescriptions: schemas.batchKeywords asks for 1 to 10
JobDescriptionLists ==
    { << "job-1" >>, << "job-1", "job-2" >>, << "job-1", "job-2", "job-3" >> }

InitBatch ==
    /\ NoRender
    /\ NoTailoring
    /\ NoServices

NextBatch ==
    \/ \E templates \in TemplateLists :
         PDFController_generateMultiplePDFs(templates)
    \/ \E fulfilled \in BOOLEAN : generatePDF_settled(fulfilled)
    \/ \E jobDescriptions \in JobDescriptionLists :
         KeywordController_batchExtractKeywords(jobDescriptions)
    \/ \E fulfilled \in BOOLEAN : extractJobKeywords_settled(fulfilled)

BatchSpec == InitBatch /\ [][NextBatch]_vars

---------------------------------------------------------------------------
(* rateLimitByUser (specification RateSpec)                                *)

\* the middleware under check is rateLimitByUser(maxRequests, windowMs)
maxRequests == 2

windowMs == 3

\* Date.now() goes from 0 to MaxNow
MaxNow == 5

\* userRateLimit.get(userId), [] for a key the Map does not have
Map_get(map, key) == IF key \in DOMAIN map THEN map[key] ELSE << >>

\* userRateLimit.set(userId, value)
Map_set(map, key, value) ==
    [k \in DOMAIN map \cup { key } |-> IF k = key THEN value ELSE map[k]]

\* userRequests.filter(timestamp => timestamp > windowStart)
recentRequests(userRequests, windowStart) ==
    SelectSeq(userRequests, LAMBDA timestamp : timestamp > windowStart)

\* a middleware that lets the request through when the window is just full
rateLimitByUser_handle_offByOne(userId) ==
    /\ \E recent \in { recentRequests(Map_get(userRateLimit, userId),
                                      now - windowMs) } :
         IF Len(recent) > maxRequests
         THEN /\ decision' = [key |-> userId, status |-> 429]
              /\ userRateLimit' = Map_set(userRateLimit, userId,
                                          Map_get(userRateLimit, userId))
              /\ UNCHANGED admitted
         ELSE /\ decision' = [key |-> userId, status |-> 200]
              /\ userRateLimit' = Map_set(userRateLimit, userId,
                                          Append(recent, now))
              /\ admitted' = Map_set(admitted, userId,
                                     Append(Map_get(admitted, userId), now))
    /\ UNCHANGED << optVars, batchVars, authVars, now >>
    /\ UNCHANGED << renderVars, aiVars >>

\* the middleware for one request of the client userId = req.user?.id ||
\* req.ip: 429, or the timestamp is recorded and next() is called (status
\* 200); `admitted` keeps every timestamp let through
rateLimitByUser_handle(userId) ==
    /\ \E recent \in { recentRequests(Map_get(userRateLimit, userId),
                                      now - windowMs) } :
         IF Len(recent) >= maxRequests
         THEN /\ decision' = [key |-> userId, status |-> 429]
              /\ userRateLimit' = Map_set(userRateLimit, userId,
                                          Map_get(userRateLimit, userId))
              /\ UNCHANGED admitted
         ELSE /\ decision' = [key |-> userId, status |-> 200]
              /\ userRateLimit' = Map_set(userRateLimit, userId,
                                          Append(recent, now))
              /\ admitted' = Map_set(admitted, userId,
                                     Append(Map_get(admitted, userId), now))
    /\ UNCHANGED << optVars, batchVars, authVars, now >>
    /\ UNCHANGED << renderVars, aiVars >>

\* a millisecond passes
Date_tick ==
    /\ now < MaxNow
    /\ now' = now + 1
    /\ UNCHANGED << optVars, batchVars, rateVars, authVars >>
    /\ UNCHANGED << renderVars, aiVars >>

\* a user id and the address of a client without one
ClientKeys == { "user-1", "203.0.113.7" }

InitRate ==
    /\ NoRender
    /\ NoTailoring
    /\ NoServices

NextRate ==
    \/ \E userId \in ClientKeys : rateLimitByUser_handle(userId)
    \/ Date_tick

RateSpec == InitRate /\ [][NextRate]_vars

---------------------------------------------------------------------------
(* AuthService.register and AuthService.login (specification AuthSpec);    *)
(* `now` counts minutes here                                               *)

\* if (this.loginAttempts >= 5)
maxLoginAttempts == 5

\* this.lockUntil = new Date(Date.now() + 30 * 60 * 1000)
lockMinutes == 30

\* the clock goes in steps of tickMinutes up to MaxMinutes
tickMinutes == 10

MaxMinutes == 40

\* the users the model lets register
MaxUsers == 2

\* lockUntil = null
null == 0

\* bcrypt.hash and bcrypt.compare
bcrypt_hash(password) == << "$2b$12$", password >>

bcrypt_compare(candidatePassword, hashed) ==
    hashed = bcrypt_hash(candidatePassword)

\* new User({ email }) after hashPassword
User(email, password) ==
    [email |-> email, password |-> bcrypt_hash(password),
     loginAttempts |-> 0, lockUntil |-> null]

\* AuthService.findUserByEmail: the first user of the Map with this email,
\* whatever the case of its letters; 0 for null
findUserByEmail(email) ==
    IF \E i \in 1..Len(users) : lowerCase(users[i].email) = lowerCase(email)
    THEN Min({ i \in 1..Len(users) :
                 lowerCase(users[i].email) = lowerCase(email) })
    ELSE 0

\* User.isAccountLocked
isAccountLocked(user) == user.lockUntil # null /\ user.lockUntil > now

\* User.handleFailedLogin
handleFailedLogin(user) ==
    [user EXCEPT !.loginAttempts = @ + 1,
                 !.lockUntil = IF user.loginAttempts + 1 >= maxLoginAttempts
                               THEN now + lockMinutes ELSE @]

\* User.handleSuccessfulLogin
handleSuccessfulLogin(user) ==
    [user EXCEPT !.loginAttempts = 0, !.lockUntil = null]

\* a call of the service in one of the two sessions
Call(o, at, email, password, user, ended) ==
    [op |-> o, pc |-> at, email |-> email, password |-> password,
     user |-> user, outcome |-> ended]

Sessions == 1..2

\* the session can take a new call
free(slot) == calls[slot].pc \in { "idle", "done" }

\* AuthService.register up to `await user.hashPassword`, or to the
\* ConflictError
AuthService_register(slot, email, password) ==
    /\ free(slot)
    /\ IF findUserByEmail(email) # 0
       THEN calls' = [calls EXCEPT ![slot] =
                        Call("register", "done", email, password, 0,
                             "CONFLICT")]
       ELSE /\ Len(users)
                 + Cardinality({ c \in Sessions :
                                   calls[c].pc \in { "hashPassword" } })
                 < MaxUsers
            /\ calls' = [calls EXCEPT ![slot] =
                           Call("register", "hashPassword",
                                lowerCase(email), password, 0, "none")]
    /\ UNCHANGED << users, now >>
    /\ UNCHANGED << optVars, batchVars, rateVars >>
    /\ UNCHANGED << renderVars, aiVars >>

\* register resumes from `await user.hashPassword`: this.users.set(user.id,
\* user), up to `await emailService.sendVerificationEmail`
hashPassword_resume(slot) ==
    /\ calls[slot].pc = "hashPassword"
    /\ users' = Append(users, User(calls[slot].email, calls[slot].password))
    /\ calls' = [calls EXCEPT ![slot].pc = "sendVerificationEmail",
                              ![slot].user = Len(users) + 1]
    /\ UNCHANGED now
    /\ UNCHANGED << optVars, batchVars, rateVars >>
    /\ UNCHANGED << renderVars, aiVars >>

\* register resumes from `await emailService.sendVerificationEmail`, sent or
\* not, and returns user.toAuthJSON()
sendVerificationEmail_resume(slot) ==
    /\ calls[slot].pc = "sendVerificationEmail"
    /\ calls' = [calls EXCEPT ![slot].pc = "done",
                              ![slot].outcome = "success"]
    /\ UNCHANGED << users, now >>
    /\ UNCHANGED << optVars, batchVars, rateVars >>
    /\ UNCHANGED << renderVars, aiVars >>

\* AuthService.login up to `await user.comparePassword`, or to the
\* AuthenticationError of an unknown email or of a locked account
AuthService_login(slot, email, password) ==
    /\ free(slot)
    /\ \E user \in { findUserByEmail(email) } :
         calls' = [calls EXCEPT ![slot] =
            IF user = 0
            THEN Call("login", "done", email, password, 0, "INVALID")
            ELSE IF isAccountLocked(users[user])
                 THEN Call("login", "done", email, password, user, "LOCKED")
                 ELSE Call("login", "comparePassword", email, password,
                           user, "none")]
    /\ UNCHANGED << users, now >>
    /\ UNCHANGED << optVars, batchVars, rateVars >>
    /\ UNCHANGED << renderVars, aiVars >>

\* login resumes from `await user.comparePassword`: handleFailedLogin and
\* the AuthenticationError, or handleSuccessfulLogin and the tokens
comparePassword_resume(slot) ==
    /\ calls[slot].pc = "comparePassword"
    /\ \E user \in { calls[slot].user } :
         IF bcrypt_compare(calls[slot].password, users[user].password)
         THEN /\ users' = [users EXCEPT
                             ![user] = handleSuccessfulLogin(users[user])]
              /\ calls' = [calls EXCEPT ![slot].pc = "done",
                                        ![slot].outcome = "success"]
         ELSE /\ users' = [users EXCEPT
                             ![user] = handleFailedLogin(users[user])]
              /\ calls' = [calls EXCEPT ![slot].pc = "done",
                                        ![slot].outcome = "INVALID"]
    /\ UNCHANGED now
    /\ UNCHANGED << optVars, batchVars, rateVars >>
    /\ UNCHANGED << renderVars, aiVars >>

\* tickMinutes pass
Clock_advance ==
    /\ now + tickMinutes <= MaxMinutes
    /\ now' = now + tickMinutes
    /\ UNCHANGED << optVars, batchVars, rateVars, authVars >>
    /\ UNCHANGED << renderVars, aiVars >>

\* one address in two spellings
Emails == { "ada@x.io", "Ada@x.io" }

\* the password of every registration, and a wrong one
rightPassword == "Passw0rd!"

wrongPassword == "Wr0ngOne!"

InitAuth ==
    /\ NoRender
    /\ NoTailoring
    /\ NoServices

NextAuth ==
    \/ \E slot \in Sessions : \E email \in Emails :
         AuthService_register(slot, email, rightPassword)
    \/ \E slot \in Sessions : hashPassword_resume(slot)
    \/ \E slot \in Sessions : sendVerificationEmail_resume(slot)
    \/ \E slot \in Sessions : \E email \in Emails :
         \E password \in { rightPassword, wrongPassword } :
           AuthService_login(slot, email, password)
    \/ \E slot \in Sessions : comparePassword_resume(slot)
    \/ Clock_advance

AuthSpec == InitAuth /\ [][NextAuth]_vars

---------------------------------------------------------------------------
(* The render job's states, section 4.4 of the specification               *)

JobState ==
    CASE pc = "populate" -> "Created"
      [] pc \in { "writeTex", "spawn" } -> "TemplatePopulated"
      [] pc \in { "compiling", "sizeCheck" } -> "Compiling"
      [] pc = "succeeded" -> "Succeeded"
      [] pc = "failed" -> "Failed"
      [] pc = "cleanup" -> IF outcome = "none" THEN "Succeeded" ELSE "Failed"
      [] pc \in { "returned", "raised" } -> "Cleaned"
      [] OTHER -> "None"

JobRank(st) ==
    CASE st = "None" -> 0
      [] st = "Created" -> 1
      [] st = "TemplatePopulated" -> 2
      [] st = "Compiling" -> 3
      [] st \in { "Succeeded", "Failed" } -> 4
      [] OTHER -> 5

Finished == pc \in { "responded", "thrown", "returned", "raised" }

---------------------------------------------------------------------------
(* Claims                                                                  *)

\* C1: render-job atomicity.  A call of generatePDF that returns leaves a PDF
\* of size 0 < size <= maxFileSize in the output directory; a call that
\* raises leaves no PDF of the job in the output directory.
C1_RenderJobAtomicity ==
    /\ pc = "returned" => outputPdf # NoFile /\ 0 < outputPdf
                          /\ outputPdf <= maxFileSize
    /\ pc = "raised" => outputPdf = NoFile

\* C2: cleanup on every exit path.  Once generatePDF has returned or raised,
\* none of the job's intermediate files (.tex, .aux, .log, .out, .pdf) is
\* left in the temp directory.
C2_CleanupOnEveryExit ==
    pc \in { "returned", "raised" } => tempFiles = {}

\* C3: the job's states are passed in the order Created, TemplatePopulated,
\* Compiling, Succeeded or Failed, Cleaned and are never revisited; the
\* compiler is started only after the template has been populated and the
\* source written; the size check runs only after exit status 0; and a job
\* that was Succeeded or Failed has run all of cleanupTempFiles when
\* generatePDF returns or raises.
C3_JobLifecycle ==
    /\ [][ /\ JobRank(JobState') >= JobRank(JobState)
           /\ JobRank(JobState') = JobRank(JobState) => JobState' = JobState
           /\ JobState' = "Created" => JobState \in { "None", "Created" }
           /\ JobState' = "Compiling" => JobState \in { "TemplatePopulated",
                                                       "Compiling" }
           /\ JobState' = "Succeeded" => JobState \in { "Compiling",
                                                       "Succeeded" }
           /\ JobState' = "Cleaned" => JobState \in { "Succeeded", "Failed",
                                                     "Cleaned" }
           /\ (proc = "none" /\ proc' # "none")
                 => replacements # NoReplacements /\ ".tex" \in tempFiles
           /\ fileSize' # fileSize => exitCode = 0 /\ proc = "closed" ]_vars
    /\ [](pc = "sizeCheck" => exitCode = 0)
    /\ [](pc \in { "returned", "raised" }
            => cleanIdx = Len(CleanupExtensions) + 1)

C3_Witness ==
    /\ pc = "raised" /\ outcome = "oversized"
    /\ cleanIdx = Len(CleanupExtensions) + 1

\* C4: when the timer of compileToPDF fires before the 'close' event has been
\* handled, SIGTERM is sent, the promise is rejected with the timeout error
\* and the job ends raising that error, never a compiler error and never a
\* result; and every job ends, also when pdflatex never exits.
C4_TimeoutEndsJob ==
    /\ [](timedOut => killSent /\ compileResult = "rejected_timeout")
    /\ [](timedOut /\ pc \in { "failed", "cleanup", "raised", "returned" }
            => outcome = "timeout" /\ pc # "returned")
    /\ <>Finished

C4_Witness ==
    /\ pc = "raised" /\ outcome = "timeout"
    /\ proc = "killed"

C6_SanitizedTemplateName ==
    pc \in { "populate", "writeTex", "failed" }
    => /\ \A i \in 1..Len(templateName) :
             templateName[i] \in LowerCaseLetters \cup Digits \cup { "_", "-" }
       /\ pc # "populate"
          => templatePath = Append(templatesDir, templateName \o cvTex)

\* a name that climbs out of the directory ("../modern") has been sanitised
\* and modern-cv.tex inside templatesDir has been opened
C6_Witness ==
    /\ entry = "direct"
    /\ request.template = Str(dotDotModern)
    /\ pc = "writeTex"
    /\ templateName = modern
    /\ templatePath = Append(templatesDir, modern \o cvTex)

ListedFontSizes    == { pt("1", "0"), pt("1", "1"), pt("1", "2") }
ListedMargins      == { narrow, normal, wide }
ListedColorSchemes == { blue, green, red, black }

Chosen(v, listed, dflt) ==
    IF v.type = "string" /\ v.chars \in listed THEN v.chars ELSE dflt

\* C8: each of fontSize, margins and colorScheme is taken as given when it
\* is one of the listed values; any other or a missing value is replaced,
\* without the request being refused for it, by the default 11pt, normal or
\* blue.  So the font size written is always 10pt, 11pt or 12pt.
C8_OptionEnums ==
    /\ details \cap { "options.fontSize", "options.margins",
                      "options.colorScheme" } = {}
    /\ pc = "writeTex"
       => /\ replacements.FONT_SIZE =
                Str(Chosen(request.options.fontSize, ListedFontSizes,
                           pt("1", "1")))
          /\ replacements.MARGIN_SIZE =
                Str(getMarginSize(Str(Chosen(request.options.margins,
                                             ListedMargins, normal))))
          /\ replacements.COLOR_SCHEME =
                Str(Chosen(request.options.colorScheme, ListedColorSchemes,
                           blue))

\* the escaped form of one character
EscapeChar(c) ==
    CASE c = "\\" -> textbackslash
      [] c = "^" -> textasciicircum
      [] c = "~" -> textasciitilde
      [] c \in { "{", "}", "$", "&", "%", "#", "_" } -> << "\\", c >>
      [] OTHER -> << c >>

RECURSIVE EscapedForm(_)
EscapedForm(s) ==
    IF s = << >> THEN << >>
    ELSE EscapeChar(Head(s)) \o EscapedForm(Tail(s))

\* the placeholder whose marker stands at position i of text ("" if none)
markerAt(text, i) ==
    LET ks == { k \in { ReplacementOrder[n] :
                           n \in 1..Len(ReplacementOrder) } :
                  /\ i + Len(Marker(k)) - 1 <= Len(text)
                  /\ SubSeq(text, i, i + Len(Marker(k)) - 1) = Marker(k) }
    IN  IF ks = {} THEN "" ELSE CHOOSE k \in ks : TRUE

\* the template with, in one pass, every marker replaced by the escaped form
\* of its value
RECURSIVE Filled(_, _, _)
Filled(text, repl, i) ==
    Only({ IF at = {} THEN SubSeq(text, i, Len(text))
           ELSE Only({ SubSeq(text, i, j - 1)
                       \o EscapedForm(String(repl[markerAt(text, j)]))
                       \o Filled(text, repl,
                                 j + Len(Marker(markerAt(text, j)))) :
                       j \in { Min(at) } }) :
           at \in { { j \in i..Len(text) :
                        text[j] = "<" /\ markerAt(text, j) # "" } } })

\* C9: every occurrence of \ { } $ & % # ^ _ ~ in a field value stands in
\* the populated source in its escaped form only: where a placeholder stood,
\* the source holds the escaped form of the field's value and nothing else.
\* (Stated for values without '<', which C10 is about.)
C9_FieldValuesEscaped ==
    ( /\ pc = "writeTex"
      /\ \A k \in { "NAME", "SUMMARY" } :
            \A i \in 1..Len(replacements[k].chars) :
                replacements[k].chars[i] # "<" )
    => \E t \in { fs_readFile(templatePath) } :
          latexContent = Filled(t, replacements, 1)

\* C10: whenever populateTemplate succeeds the populated source holds no
\* '<<...>>' marker, whatever the field values are.
C10_NoMarkerRemains ==
    pc = "writeTex" => ~remainingPlaceholders(latexContent)

---------------------------------------------------------------------------
(* C11: retries of a generative-text request                               *)

IsRetryableStatus(o) ==
    o.kind = "status" /\ (o.status = 429 \/ (o.status >= 500 /\ o.status < 600))

\* the request failed and every one of its attempts ended with 5xx or 429
FailedOnServerErrors ==
    /\ reqPc = "thrown"
    /\ \A i \in 1..Len(errors) : IsRetryableStatus(errors[i])

\* C11 as stated: a request that keeps failing with 5xx or 429 is retried 3
\* times before it fails.
C11_RetriedThreeTimes ==
    FailedOnServerErrors => Len(slept) = 3

C11_Attempts ==
    /\ attempt <= maxRetries
    /\ Len(errors) <= maxRetries
    /\ Len(slept) <= maxRetries - 1
    \* the i-th wait is the base delay doubled i-1 times
    /\ \A i \in 1..Len(slept) : slept[i] = retryDelay * Pow2(i - 1)
    \* a wait follows every failure but a client error and the last attempt's
    /\ \A i \in 1..Len(errors) :
          IF IsClientError(errors[i]) \/ i = maxRetries
          THEN i = Len(errors) /\ reqPc = "thrown" /\ Len(slept) = i - 1
          ELSE Len(slept) >= i
    /\ FailedOnServerErrors =>
          Len(errors) = maxRetries /\ Len(slept) = maxRetries - 1

\* C11, amended: a request is attempted at most 3 times in all, so a request
\* that keeps failing with 5xx or 429 is retried twice, after waits of the
\* base delay and of twice the base delay, and fails at the third attempt;
\* a request that fails with another 4xx status fails at that attempt
\* without a retry; every request that was started returns or fails.
C11_BoundedRetries ==
    /\ [] C11_Attempts
    /\ (reqPc = "calling") ~> requestDone

\* three server errors in a row were answered with two waits and a failure
C11_Witness ==
    /\ FailedOnServerErrors
    /\ Len(errors) = maxRetries
    /\ slept = << retryDelay, 2 * retryDelay >>

---------------------------------------------------------------------------
(* C14, C15, C16: the keywords extractJobKeywords returns                  *)

keywordsReturned == op = "extractJobKeywords" /\ stage = "returned"

retriesExhausted == reqPc = "thrown" /\ Len(errors) = maxRetries
unparsableOutput == reqPc = "returned" /\ reply.json = "invalid"

\* keyword, weight and category of the keywords of a list
Plain(kws) ==
    { [keyword |-> kws[i].keyword, weight |-> kws[i].weight,
       category |-> kws[i].category] : i \in 1..Len(kws) }

\* C14: when the keyword request exhausts its retries or its output cannot
\* be parsed, the keywords returned are exactly those of the pattern
\* extraction over the technical, soft-skill and action-verb vocabularies
\* with their fixed weights, and none carries the +0.2 bonus of an
\* AI-sourced keyword.
C14_PatternExtractionOnly ==
    (keywordsReturned /\ (retriesExhausted \/ unparsableOutput)) =>
        /\ Plain(keywordAnalysis.keywords)
             = Plain(basicKeywordExtraction(jobText))
        /\ \A i \in 1..Len(keywordAnalysis.keywords) :
              ~ arrayIncludes(keywordAnalysis.keywords[i].sources, "claude")

\* C15: on every path through extractJobKeywords the returned list is
\* sorted by final score, highest first, and holds at most 20 keywords.
C15_SortedTop20 ==
    keywordsReturned =>
        /\ Len(keywordAnalysis.keywords) <= 20
        /\ \A i, j \in 1..Len(keywordAnalysis.keywords) :
              i < j => calculateFinalScore(keywordAnalysis.keywords[i], jobText)
                         >= calculateFinalScore(keywordAnalysis.keywords[j],
                                                jobText)

\* C16: for an empty job-description text extractJobKeywords returns an
\* empty list, whatever the API answered.
C16_EmptyTextNoKeywords ==
    (keywordsReturned /\ jobText = "") => keywordAnalysis.keywords = << >>

---------------------------------------------------------------------------
(* C17, C18: analyzeCVKeywords                                             *)

analysisDone == op = "analyzeCVKeywords" /\ stage \in { "returned", "thrown" }

\* C17: for job keywords whose weights lie in [0,1], lists of weight 0
\* included, the match score analyzeCVKeywords returns is an integer in
\* 0..100, and it is 0 for an empty list.
C17_MatchScoreInRange ==
    (analysisDone /\ stage = "returned") =>
        /\ cvAnalysis.matchScore \in 0..100
        /\ jobKeywords = << >> => cvAnalysis.matchScore = 0

\* C18: job keywords given as plain strings count as keywords of weight
\* 1.0: analyzeCVKeywords does not raise, also when a keyword matches, and
\* the matched and the missing keywords partition the job keywords.
C18_PlainStringKeywords ==
    (analysisDone /\ \E i \in 1..Len(jobKeywords) : ~ jobKeywords[i].isObject)
      => /\ stage = "returned"
         /\ \A i \in 1..Len(jobKeywords) :
               (\E n \in 1..Len(cvAnalysis.matchedKeywords) :
                    cvAnalysis.matchedKeywords[n].keyword
                      = jobKeywords[i].keyword)
                 # (\E n \in 1..Len(cvAnalysis.missingKeywords) :
                      cvAnalysis.missingKeywords[n] = jobKeywords[i])
         /\ \A n \in 1..Len(cvAnalysis.matchedKeywords) :
               cvAnalysis.matchedKeywords[n].jobWeight = 10
                 \/ \E i \in 1..Len(jobKeywords) :
                      /\ jobKeywords[i].isObject
                      /\ jobKeywords[i].keyword
                           = cvAnalysis.matchedKeywords[n].keyword

---------------------------------------------------------------------------
(* C12, C13, C19, C20: generateTailoredContent                             *)

tailoring == op = "generateTailoredContent"

\* C12: whatever the generative-text calls end with, generateTailoredContent
\* on a valid profile and job description raises nothing and returns a
\* TailoredCV.
C12_NoFailurePropagated ==
    /\ [] (tailoring => stage # "thrown")
    /\ tailoring ~> (stage = "returned")

\* every call failed (the last one is still to be seen, the earlier ones
\* left their fallbacks) and the TailoredCV was returned
C12_Witness ==
    /\ tailoring
    /\ stage = "returned"
    /\ reqPc = "thrown"
    /\ profile = longProfile
    /\ tailoredCV.summary = generateSummary(jobKeywords, TRUE, NoReply)
    /\ \E i \in 1..Len(tailoredCV.experience) :
          tailoredCV.experience[i].bullets
            = selectedBullets(longProfile.work_experience[2])
    /\ \A i \in 1..Len(keywordAnalysis.keywords) :
          keywordAnalysis.keywords[i].keyword # "Kubernetes"

\* C13: when the summary request fails, the summary of the tailored CV is
\* the fallback of ContentService: first name, number of work experiences
\* and the first three job keywords.
C13_FallbackSummary ==
    [][ (tailoring /\ stage = "summary" /\ reqPc = "thrown"
           /\ stage' # "summary")
          => sections'.summary = generateFallbackSummary(profile, jobKeywords)
      ]_vars

\* the tailored content as a profile: its skills, experiences and projects
tailoredProfile ==
    Profile("",
            tailoredCV.experience,
            Only({ [i \in 1..Len(sk) |-> sk[i].keyword] :
                   sk \in { filter(tailoredCV.skills,
                                   LAMBDA x : x.t = "string", 1) } }),
            tailoredCV.projects)

\* C19: the relevanceScore of the returned TailoredCV is the match score of
\* the tailored content (tailored skills, rewritten bullets, selected
\* projects) against the job keywords.
C19_ScoreOfTailoredContent ==
    (tailoring /\ stage = "returned") =>
        \E a \in { analyzeCVKeywords(tailoredProfile, jobKeywords) } :
            tailoredCV.relevanceScore
              = (IF a.matchScore = NaN THEN 0 ELSE a.matchScore)

\* C20: the tailored content holds at most 4 experiences of at most 4
\* bullets each, at most 15 skills and at most 3 projects, while it is put
\* together and when it is returned.
C20_SelectionCaps ==
    tailoring =>
        /\ Len(loop.bullets) <= 4
        /\ \A content \in { sections, tailoredCV } :
              /\ Len(content.experience) <= 4
              /\ \A i \in 1..Len(content.experience) :
                    Len(content.experience[i].bullets) <= 4
              /\ Len(content.skills) <= 15
              /\ Len(content.projects) <= 3

\* a profile of 5 experiences, one with 5 bullets, 17 skills and 4 projects
\* was cut to the caps
C20_Witness ==
    /\ tailoring
    /\ stage = "returned"
    /\ Len(profile.work_experience) > 4
    /\ Len(profile.skills) > 15
    /\ Len(profile.projects) > 3
    /\ Len(tailoredCV.experience) = 4
    /\ \E i \in 1..4 : Len(tailoredCV.experience[i].bullets) = 4
    /\ Len(tailoredCV.skills) = 15
    /\ Len(tailoredCV.projects) = 3

\* the experiences were selected: the loop over them has begun or is done
experiencesSelected ==
    tailoring /\ stage \in { "bullet", "skills", "returned" }

\* the scores of the experiences of the profile, in its order
profileScores ==
    [j \in 1..Len(profile.work_experience) |->
       calculateExperienceRelevance(profile.work_experience[j], jobKeywords)]

\* the place of experience i in the order of the claim: one more than the
\* number of experiences with a higher score, or with the same score and
\* earlier in the profile
placeOf(score, i) ==
    1 + Cardinality({ j \in 1..Len(score) :
                        \/ score[j] > score[i]
                        \/ score[j] = score[i] /\ j < i })

\* C21: selectAndEnhanceExperience keeps exactly the 4 experiences of the
\* highest relevance score, in descending order of score, and of two
\* experiences of the same score the earlier one of the profile comes first.
C21_TopFourByScore ==
    experiencesSelected =>
        /\ Len(loop.experiences) = Min({ 4, Len(profile.work_experience) })
        /\ \E score \in { profileScores } :
           \A i \in 1..Len(score) :
           \E place \in { placeOf(score, i) } :
              place <= 4 =>
                /\ loop.experiences[place].role
                     = profile.work_experience[i].role
                /\ loop.experiences[place].relevanceScore = score[i]
        /\ stage = "returned" =>
              /\ Len(tailoredCV.experience) = Len(loop.experiences)
              /\ \A k \in 1..Len(loop.experiences) :
                    tailoredCV.experience[k].role = loop.experiences[k].role

\* of five experiences the two that name a job keyword come first, and of the
\* three of score 0 the last one of the profile is dropped
C21_Witness ==
    /\ tailoring
    /\ stage = "returned"
    /\ profile = longProfile
    /\ [k \in 1..4 |-> tailoredCV.experience[k].role]
         = << "React Developer", "Docker Consultant", "Engineer", "Analyst" >>
    /\ tailoredCV.experience[3].relevanceScore
         = tailoredCV.experience[4].relevanceScore

\* the text every successful rewrite returns in TailorSpec
rewrittenText == "Led the migration to React and Docker"

\* C22: when the rewrite of a bullet fails, the original text of the bullet
\* takes its place, the next bullet of the experience is still submitted
\* and nothing is raised; the enhanced experience has one bullet for each
\* selected bullet, in their order.
C22_BulletKeptOnFailure ==
    /\ [][ (tailoring /\ stage = "bullet" /\ reqPc = "thrown") =>
             LET selected == selectedBullets(loop.experiences[loop.e])
                 kept == Append(loop.bullets, selected[Len(loop.bullets) + 1])
             IN  IF Len(kept) < Len(selected)
                 THEN /\ loop'.bullets = kept
                      /\ loop'.e = loop.e
                      /\ stage' = "bullet"
                      /\ caller' = "rewriteBullet"
                      /\ reqPc' = "calling"
                 ELSE /\ stage' \in { "bullet", "skills" }
                      /\ Len(sections'.experience) > Len(sections.experience)
                      /\ sections'.experience[Len(sections.experience) + 1]
                           = [loop.experiences[loop.e] EXCEPT !.bullets = kept]
         ]_vars
    /\ [] ((tailoring /\ stage = "returned") =>
             \A k \in 1..Len(tailoredCV.experience) :
               LET selected == selectedBullets(loop.experiences[k])
                   bullets == tailoredCV.experience[k].bullets
               IN  /\ Len(bullets) = Len(selected)
                   /\ \A n \in 1..Len(selected) :
                         bullets[n] \in { selected[n], rewrittenText })

\* the first and the last of four rewrites failed, the two between succeeded
C22_Witness ==
    /\ tailoring
    /\ stage = "returned"
    /\ profile = longProfile
    /\ tailoredCV.experience[1].bullets
         = << bulletLed, rewrittenText, rewrittenText, "Mentored juniors" >>

\* the catch block of generatePDF has begun to unlink the files of a job
\* whose compilation timed out
timeoutCleanupBegun == outcome = "timeout" /\ cleanIdx > 1

\* C28: on the timeout path the files of the job are deleted only after
\* pdflatex has terminated, so the killed child creates no file of the job
\* once the deletion has begun.
C28_CleanupAfterTermination ==
    /\ [] (timeoutCleanupBegun => proc \notin { "running", "killed" })
    /\ [][ timeoutCleanupBegun => tempFiles' \subseteq tempFiles ]_vars

\* the name and the summary hold none of the characters escapeLatex rewrites
plainFieldValues ==
    \A k \in { "NAME", "SUMMARY" } :
        EscapedForm(String(replacements[k])) = String(replacements[k])

\* C29: populateTemplate substitutes in a single pass: a field value that
\* holds the marker of another placeholder is inserted as it is, so the
\* populated source is the template with every marker of the template
\* replaced by the value of its own field.
C29_SinglePassSubstitution ==
    (pc = "writeTex" /\ plainFieldValues)
    => \E t \in { fs_readFile(templatePath) } :
          latexContent = Filled(t, replacements, 1)

\* what one pass over the content submits: every bullet once, in order, and
\* then the summary when there is one
RECURSIVE bulletsOf(_, _)
bulletsOf(experiences, e) ==
    IF e > Len(experiences) THEN << >>
    ELSE [b \in 1..Len(experiences[e].bullets) |->
            Submission("rewriteBullet", experiences[e].bullets[b])]
         \o bulletsOf(experiences, e + 1)

onePass(content) ==
    (IF "experience" \in content.has THEN bulletsOf(content.experience, 1)
     ELSE << >>)
    \o (IF content.summary # ""
        THEN << Submission("optimizeSummary", content.summary) >>
        ELSE << >>)

\* C23: optimizeContent never fails; when the current score reaches the target
\* it returns the content unchanged with optimized = false and nothing was
\* submitted to the generative service, and otherwise it returns optimized
\* content after exactly one pass (every bullet and the summary submitted
\* once) with improvement = new score - old score.
C23_OnePassOptimization ==
    op = "optimizeContent" =>
        /\ stage # "thrown"
        /\ stage = "returned" =>
             IF cvAnalysis.matchScore >= targetScore
             THEN /\ ~ result.optimized
                  /\ result.content = cvContent
                  /\ submitted = << >>
             ELSE /\ result.optimized
                  /\ submitted = onePass(cvContent)
                  /\ result.improvement
                       = improvementOf(result.analysis.matchScore,
                                       cvAnalysis.matchScore)

\* C30: when optimizeContent returns with optimized = true and both scores
\* are numbers, the score after the pass is not lower than the score before
\* it: the reported improvement is >= 0.
C30_ImprovementNonNegative ==
    ( /\ op = "optimizeContent"
      /\ stage = "returned"
      /\ result.optimized
      /\ cvAnalysis.matchScore # NaN
      /\ result.analysis.matchScore # NaN )
        => result.improvement >= 0

\* how often unit u occurs in a list of units, and in a list of entries
timesIn(list, u) == Cardinality({ i \in 1..Len(list) : list[i] = u })

timesEntered(entries, u) ==
    Cardinality({ i \in 1..Len(entries) : entries[i].unit = u })

\* every unit of the first n is in results or in errors, exactly once
accountedFor(n) ==
    /\ Len(results) + Len(batchErrors) = n
    /\ \A i \in 1..Len(results) : results[i].status = "success"
    /\ \A i \in 1..Len(batchErrors) : batchErrors[i].status = "failed"
    /\ \A u \in { units[i] : i \in 1..Len(units) } :
         timesEntered(results, u) + timesEntered(batchErrors, u)
           = timesIn(SubSeq(units, 1, n), u)

\* the handler has answered with its summary of all units
summarized ==
    /\ res.status = 200
    /\ accountedFor(Len(units))
    /\ res.total = Len(units)
    /\ res.successful = Len(results)
    /\ res.failed = Len(batchErrors)
    /\ res.successful + res.failed = res.total

\* C24 as stated: every multi-unit operation attempts every unit and answers
\* with the summary of all of them.
C24_EveryUnitAttempted ==
    (batchOp # "none" /\ unitIdx = 0) => summarized

\* C24: generateMultiplePDFs with more than 5 templates is refused with 400
\* before any unit is attempted; every other multi-unit operation goes from
\* unit to unit whatever the earlier units did, enters each unit exactly once
\* in results or in errors, and answers with successful + failed = total.
C24_PartialBatchFailure ==
    batchOp # "none" =>
        IF batchOp = "generateMultiplePDFs" /\ Len(units) > maxTemplates
        THEN res = Refusal /\ results = << >> /\ batchErrors = << >>
                           /\ unitIdx = 0
        ELSE IF unitIdx > 0
             THEN res = NoResponse /\ accountedFor(unitIdx - 1)
             ELSE summarized

\* a unit succeeded after an earlier unit had failed, and the handler has
\* answered
C24_Witness ==
    /\ batchOp = "generateMultiplePDFs"
    /\ res.status = 200
    /\ res.failed > 0
    /\ res.successful > 0
    /\ batchErrors[1].unit = units[1]
    /\ results[Len(results)].unit = units[Len(units)]
    /\ Len(units) = maxTemplates

\* how many requests of a client were let through in the last windowMs
admittedInWindow(key, at) ==
    Len(recentRequests(Map_get(admitted, key), at - windowMs))

\* C25: for every client key the requests let through within the last
\* windowMs are never more than maxRequests; a request answered with 429
\* leaves the recorded timestamps as they are; a request changes the
\* timestamps of its own client only, and is refused exactly when its own
\* client has maxRequests timestamps in the window.
C25_SlidingWindow ==
    /\ [](\A key \in ClientKeys : admittedInWindow(key, now) <= maxRequests)
    /\ [][ decision' # decision \/ userRateLimit' # userRateLimit
           \/ admitted' # admitted =>
             /\ \A other \in ClientKeys \ { decision'.key } :
                  /\ Map_get(userRateLimit', other)
                       = Map_get(userRateLimit, other)
                  /\ Map_get(admitted', other) = Map_get(admitted, other)
             /\ decision'.status = 429
                  <=> admittedInWindow(decision'.key, now) >= maxRequests
             /\ decision'.status = 429 =>
                  /\ Map_get(userRateLimit', decision'.key)
                       = Map_get(userRateLimit, decision'.key)
                  /\ admitted' = admitted
             /\ decision'.status = 200 =>
                  Map_get(admitted', decision'.key)
                    = Append(Map_get(admitted, decision'.key), now)
         ]_vars

\* a client is refused while the other client, later in the same window, is
\* let through, and the refused client has had requests in two windows
C25_Witness ==
    /\ decision = [key |-> "user-1", status |-> 429]
    /\ Len(Map_get(admitted, "user-1")) > maxRequests
    /\ admittedInWindow("user-1", now) = maxRequests
    /\ admittedInWindow("203.0.113.7", now) = 1

\* the session ends a login of user u with the tokens in this step
succeeds(slot, u) ==
    /\ calls[slot].pc = "comparePassword"
    /\ calls[slot].user = u
    /\ calls'[slot].outcome = "success"

\* C26: the fifth failed login locks the account for 30 minutes; while the
\* account is locked no login succeeds, whatever its password, and the
\* failed-attempt count and the lock stay as they are; a login that succeeds
\* sets the count to 0, and a login with the right password that finds the
\* account not locked succeeds.
C26_Lockout ==
    [][ \A u \in 1..Len(users) :
          /\ ( /\ users'[u].loginAttempts > users[u].loginAttempts
               /\ users'[u].loginAttempts >= maxLoginAttempts )
               => users'[u].lockUntil = now + lockMinutes
          /\ isAccountLocked(users[u]) =>
               /\ users'[u] = users[u]
               /\ \A slot \in Sessions : ~ succeeds(slot, u)
               /\ \A slot \in Sessions :
                    ( /\ free(slot)
                      /\ calls'[slot] # calls[slot]
                      /\ calls'[slot].op = "login"
                      /\ calls'[slot].user = u )
                      => calls'[slot].outcome = "LOCKED"
          /\ \A slot \in Sessions :
               /\ succeeds(slot, u) =>
                    /\ users'[u].loginAttempts = 0
                    /\ users'[u].lockUntil = null
               /\ ( /\ calls[slot].pc = "comparePassword"
                    /\ calls'[slot].pc = "done"
                    /\ calls[slot].user = u
                    /\ calls[slot].password = rightPassword
                    /\ ~ isAccountLocked(users[u]) )
                    => succeeds(slot, u)
      ]_vars

\* C27: no two users of the store have the same email ignoring case, and a
\* registration that ends with success has stored the only user of its
\* email (the registration of a taken email ends with CONFLICT).
C27_UniqueEmails ==
    /\ \A i \in 1..Len(users) : \A j \in 1..Len(users) :
         i # j => lowerCase(users[i].email) # lowerCase(users[j].email)
    /\ \A slot \in Sessions :
         (calls[slot].op = "register" /\ calls[slot].user # 0)
           => findUserByEmail(calls[slot].email) = calls[slot].user

====
